---- MODULE Spec2Model ----
(***************************************************************************)
(* Fandango.ai: the scraping engine (lib/docker-patch.ts, which is         *)
(* lib/fandangoScraper.ts plus the session registry) and the two HTTP      *)
(* routes that use the registry (the /search route, session variant, and   *)
(* the /seatmap route).                                                    *)
(*                                                                         *)
(* Spec      : the routes, the session registry and the clock that         *)
(*             generates session ids, under any interleaving of requests.  *)
(* SpecQuery : one processQuery call, step by step, on one page.           *)
(* SpecTime  : the time parsers applied to bounded sets of time strings.   *)
(* SpecClose : construction, initialization, close() and screenshots.      *)
(* SpecPage  : one call of performSearch, continueToSeatMap or             *)
(*             navigateToTimeSlotSafely on a page drawn from a bounded set.*)
(***************************************************************************)
EXTENDS Integers, Sequences, FiniteSets, TLC

(***************************************************************************)
(* Bounds of the model                                                     *)
(***************************************************************************)
\* number of HTTP requests that can be in flight at the same time
NumReqs == 2
\* number of FandangoScraper objects constructed over a run
MaxObjs == 2
\* last millisecond the clock (Date.now()) can reach
MaxClock == 1

Reqs == 1..NumReqs
Objs == 1..MaxObjs
None == 0
\* session ids are Date.now() values; NoId stands for an absent sessionId
Ids == 0..MaxClock
NoId == -1

VARIABLES
  now,          \* Date.now()
  registry,     \* FandangoScraper.activeScrapers : id -> object (None = no entry)
  nobj,         \* number of FandangoScraper objects constructed so far
  sessionId,    \* this.sessionId of each object (NoId = not constructed)
  page,         \* this.page of each object: "null", or where the page is
  hasError,     \* this.hasError of each object
  pc,           \* position of each request in its route handler
  kind,         \* "search" | "seatmap" | "none"
  reqSid,       \* sessionId in the request body (NoId = absent)
  made,         \* the local `scraper` of getOrCreateSession while it initializes
  scraper,      \* the route's local `scraper`
  newSession,   \* the seat-map route's local `newSession`
  opOn,         \* object on whose page this request's browser operation runs
  opKind,       \* which browser operation the route awaits (or awaited)
  result,       \* what the awaited operation settled to
  resp,         \* the HTTP response
  hit,          \* history: the lookup of this request found its id in the registry
  closes,       \* history: number of close() calls so far
  lastHit,      \* history: per id, the object the last lookup returned and the
                \*          value of closes then
  issued,       \* history: objects whose id a /search response handed out
  \* --- one call of processQuery ---
  query,        \* the ScraperQuery
  qsid,         \* this.sessionId of the session that serves the call
  qpc,          \* position in processQuery (the call it awaits)
  calls,        \* history: the navigator/extractor calls made, in order
  results,      \* the local `results`
  movieResult,  \* what findMovieOnTheaterPage returned (NoMovieResult before)
  extractPath,  \* history: "direct" | "container" | "none"
  qpage,        \* history: the page facts the extractor met
  \* --- one evaluation of the time parsers ---
  tText,        \* the text handed to the parsers
  tpc,          \* "given" | "parsed" | "bound"
  parsed,       \* [parseTime, timeStringToMinutes] of tText, or the minutes
                \* of tText as a range bound [container path, direct path]
  \* --- calls of close() ---
  context,      \* this.context of each object: "open" | "null"
  browser,      \* this.browser of each object: "open" | "null"
  cpc,          \* per object: "none" | "init" | "idle", or the part whose
                \*             close() the running close() call awaits
  released,     \* history: the <<object, part>> close() calls made, in order
  closed,       \* history: per object, the close() calls that returned
  shots,        \* the screenshot files written: [obj, path], in order
  \* --- one call of a page operation ---
  pop,          \* the page operation that is called ("none" = none)
  ppc,          \* "off" | "called" | "returned"
  elements,     \* the elements of the page continueToSeatMap looks at, in
                \* document order
  selectedTime, \* argument of continueToSeatMap
  timeSlotUrl,  \* argument of both seat-map operations: the query
                \* parameters the URL has
  seatMap,      \* checkForSeatMap() finds a seat map after a direct goto
  searchDom,    \* what the search selectors of performSearch meet
  foundButton,  \* history: index of the element continueToSeatMap clicked
                \* (0 = none)
  typed,        \* history: performSearch filled the search box
  submitted,    \* history: how performSearch submitted ("none" = not at all)
  requests,     \* history: the document requests sent, [url, referer]
  ret           \* what the operation returned, with this.hasError after it

svars == <<now, registry, nobj, sessionId, page, hasError, pc, kind, reqSid, made,
           scraper, newSession, opOn, opKind, result, resp, hit, closes, lastHit,
           issued>>

qvars == <<query, qsid, qpc, calls, results, movieResult, extractPath, qpage>>
tvars == <<tText, tpc, parsed>>
cvars == <<context, browser, cpc, released, closed>>

pvars == <<pop, ppc, elements, selectedTime, timeSlotUrl, seatMap, searchDom, foundButton,
           typed, submitted, requests, ret>>

vars == <<svars, qvars, tvars, cvars, shots, pvars>>

NoResp == [status |-> 0, body |-> "none", sessionId |-> NoId]
NoHit == [obj |-> None, closes |-> 0]
NoResults == [message |-> "", screenshots |-> <<>>, sessionId |-> NoId,
              timeSlots |-> <<>>, movieTitle |-> "", theaterName |-> "", error |-> ""]
NoMovieResult == [success |-> FALSE, error |-> "", screenshots |-> <<>>,
                  timeSlots |-> <<>>, movieTitle |-> "", theaterName |-> ""]
NoFilter == [has |-> FALSE, start |-> <<>>, end |-> <<>>]
NoSpecific == [given |-> FALSE, list |-> <<>>]
NoQuery == [movie |-> "", theater |-> "", location |-> "", time_range |-> NoFilter,
            specific_times |-> NoSpecific]

\* a page without movie listings section
NoButtonsPage ==
  [theaterName |-> "", section |-> FALSE, match |-> "none", title |-> "",
   containerId |-> FALSE, containerPresent |-> FALSE, raises |-> "none",
   buttons |-> <<>>]

\* no processQuery call is modelled
QueryOff ==
  /\ query = NoQuery /\ qsid = NoId /\ qpc = "off" /\ calls = <<>>
  /\ results = NoResults /\ movieResult = NoMovieResult /\ extractPath = "none"
  /\ qpage = NoButtonsPage
\* no parser evaluation is modelled
TimeOff == tText = <<>> /\ tpc = "off" /\ parsed = <<0, 0>>

\* no close() call is modelled
NotClosing ==
  /\ context = [o \in Objs |-> "null"]
  /\ browser = [o \in Objs |-> "null"]
  /\ cpc = [o \in Objs |-> "none"]
  /\ released = <<>>
  /\ closed = [o \in Objs |-> 0]
  /\ shots = <<>>

\* no page operation is modelled
NoRet == [success |-> FALSE, error |-> "", hasError |-> FALSE]
NoDom == [box |-> FALSE, enter |-> "ok", button |-> "none", form |-> "none"]
NoUrl == [mid |-> FALSE, tid |-> FALSE]
PageOff ==
  /\ pop = "none" /\ ppc = "off" /\ elements = <<>> /\ selectedTime = <<>> /\ timeSlotUrl = NoUrl
  /\ seatMap = FALSE /\ searchDom = NoDom /\ foundButton = 0 /\ typed = FALSE
  /\ submitted = "none" /\ requests = <<>> /\ ret = NoRet

\* the server after start: no session, no request
NoSessions ==
  /\ now = 0
  /\ registry = [i \in Ids |-> None]
  /\ nobj = 0
  /\ sessionId = [o \in Objs |-> NoId]
  /\ page = [o \in Objs |-> "null"]
  /\ hasError = [o \in Objs |-> FALSE]
  /\ pc = [r \in Reqs |-> "idle"]
  /\ kind = [r \in Reqs |-> "none"]
  /\ reqSid = [r \in Reqs |-> NoId]
  /\ made = [r \in Reqs |-> None]
  /\ scraper = [r \in Reqs |-> None]
  /\ newSession = [r \in Reqs |-> FALSE]
  /\ opOn = [r \in Reqs |-> None]
  /\ opKind = [r \in Reqs |-> "none"]
  /\ result = [r \in Reqs |-> "none"]
  /\ resp = [r \in Reqs |-> NoResp]
  /\ hit = [r \in Reqs |-> FALSE]
  /\ closes = 0
  /\ lastHit = [i \in Ids |-> NoHit]
  /\ issued = {}

Init == NoSessions /\ QueryOff /\ TimeOff /\ NotClosing /\ PageOff

(***************************************************************************)
(* The clock behind Date.now(): it may or may not advance between two      *)
(* steps of the server.                                                    *)
(***************************************************************************)
Tick ==
  /\ now < MaxClock
  /\ now' = now + 1
  /\ UNCHANGED <<qvars, tvars, cvars, shots, pvars, registry, nobj, sessionId, page, hasError, pc, kind, reqSid, made,
                 scraper, newSession, opOn, opKind, result, resp, hit, closes,
                 lastHit, issued>>

(***************************************************************************)
(* FandangoScraper                                                         *)
(***************************************************************************)
\* constructor: this.sessionId = Date.now().toString()
NewSessionId == now

\* activeScrapers.set(scraper.sessionId, scraper)
Register(reg, o) == [reg EXCEPT ![sessionId[o]] = o]

\* close(): activeScrapers.delete(this.sessionId)
Deregister(reg, o) == [reg EXCEPT ![sessionId[o]] = None]

\* getOrCreateSession: `sessionId && activeScrapers.has(sessionId)`
Lookup(id) == id # NoId /\ registry[id] # None

\* getOrCreateSession(id), up to its first await: either the registered object is
\* returned, or a new object is constructed (its id read from the clock) and
\* initialize() starts (chromium.launch is called).
GetOrCreateSession(r, id) ==
  IF Lookup(id)
  THEN /\ scraper' = [scraper EXCEPT ![r] = registry[id]]
       /\ hit' = [hit EXCEPT ![r] = TRUE]
       /\ lastHit' = [lastHit EXCEPT ![id] = [obj |-> registry[id], closes |-> closes]]
       /\ pc' = [pc EXCEPT ![r] = "armed"]
       /\ UNCHANGED <<nobj, sessionId, made>>
  ELSE /\ nobj < MaxObjs
       /\ nobj' = nobj + 1
       /\ sessionId' = [sessionId EXCEPT ![nobj + 1] = NewSessionId]
       /\ made' = [made EXCEPT ![r] = nobj + 1]
       /\ pc' = [pc EXCEPT ![r] = "init"]
       /\ UNCHANGED <<scraper, hit, lastHit>>

\* the rest of getOrCreateSession: initialize() settled (true, or false after a
\* caught failure; its value is not looked at), the object is registered and
\* returned to the route.
InitDone(r, ok) ==
  /\ pc[r] = "init"
  /\ page' = [page EXCEPT ![made[r]] = IF ok THEN "blank" ELSE "null"]
  /\ registry' = Register(registry, made[r])
  /\ scraper' = [scraper EXCEPT ![r] = made[r]]
  /\ pc' = [pc EXCEPT ![r] = IF kind[r] = "seatmap" /\ newSession[r]
                             THEN "prenav" ELSE "armed"]
  /\ UNCHANGED <<qvars, tvars, cvars, shots, pvars, now, nobj, sessionId, hasError, kind, reqSid, made, newSession,
                 opOn, opKind, result, resp, hit, closes, lastHit, issued>>

\* a request takes the lowest free slot (the slots are interchangeable)
FreeSlot(r) == \A r2 \in Reqs : r2 < r => pc[r2] # "idle"

(***************************************************************************)
(* POST /search (session variant)                                          *)
(***************************************************************************)
SearchArrive(r, valid) ==
  /\ pc[r] = "idle"
  /\ FreeSlot(r)
  /\ kind' = [kind EXCEPT ![r] = "search"]
  /\ IF ~valid
     THEN /\ resp' = [resp EXCEPT ![r] = [status |-> 400, body |-> "invalid",
                                           sessionId |-> NoId]]
          /\ pc' = [pc EXCEPT ![r] = "done"]
          /\ UNCHANGED <<nobj, sessionId, made, scraper, hit, lastHit>>
     ELSE /\ GetOrCreateSession(r, NoId)
          /\ UNCHANGED resp
  /\ UNCHANGED <<qvars, tvars, cvars, shots, pvars, now, registry, page, hasError, reqSid, newSession, opOn, opKind,
                 result, closes, issued>>

(***************************************************************************)
(* POST /seatmap                                                           *)
(***************************************************************************)
SeatArrive(r, hasUrl, id, hasTime) ==
  /\ pc[r] = "idle"
  /\ FreeSlot(r)
  /\ kind' = [kind EXCEPT ![r] = "seatmap"]
  /\ IF ~hasUrl \/ ~hasTime
     THEN /\ resp' = [resp EXCEPT ![r] = [status |-> 400, body |-> "invalid",
                                           sessionId |-> NoId]]
          /\ pc' = [pc EXCEPT ![r] = "done"]
          /\ UNCHANGED <<nobj, sessionId, made, scraper, hit, lastHit, newSession,
                         reqSid>>
     ELSE /\ GetOrCreateSession(r, id)
          /\ reqSid' = [reqSid EXCEPT ![r] = id]
          /\ newSession' = [newSession EXCEPT ![r] = (id = NoId)]
          /\ UNCHANGED resp
  /\ UNCHANGED <<qvars, tvars, cvars, shots, pvars, now, registry, page, hasError, opOn, opKind, result, closes, issued>>

\* `if (newSession) { await scraper.navigateToFandango(); await scraper.manageCookies(); }`
PreNavBegin(r) ==
  /\ pc[r] = "prenav"
  /\ IF page[scraper[r]] = "null"
     THEN \* navigateToFandango throws "Page not initialized"
          /\ result' = [result EXCEPT ![r] = "throw"]
          /\ pc' = [pc EXCEPT ![r] = "caught"]
          /\ UNCHANGED <<opOn, opKind>>
     ELSE /\ opOn' = [opOn EXCEPT ![r] = scraper[r]]
          /\ opKind' = [opKind EXCEPT ![r] = "preNav"]
          /\ pc' = [pc EXCEPT ![r] = "prenavRun"]
          /\ UNCHANGED result
  /\ UNCHANGED <<qvars, tvars, cvars, shots, pvars, now, registry, nobj, sessionId, page, hasError, kind, reqSid, made,
                 scraper, newSession, resp, hit, closes, lastHit, issued>>

PreNavEnd(r) ==
  /\ pc[r] = "prenavRun"
  /\ page' = [page EXCEPT ![opOn[r]] = IF @ = "null" THEN @ ELSE "home"]
  /\ opOn' = [opOn EXCEPT ![r] = None]
  /\ pc' = [pc EXCEPT ![r] = "armed"]
  /\ UNCHANGED <<qvars, tvars, cvars, shots, pvars, now, registry, nobj, sessionId, hasError, kind, reqSid, made,
                 scraper, newSession, opKind, result, resp, hit, closes, lastHit,
                 issued>>

\* which operation the route awaits in Promise.race
RouteOp(r) ==
  IF kind[r] = "search" THEN "processQuery"
  ELSE IF newSession[r] THEN "navigateToTimeSlotSafely"
  ELSE "continueToSeatMap"

\* The awaited operation is called. Each of the three begins with
\* `if (!this.page) throw new Error("Page not initialized")`.
BeginOp(r) ==
  /\ pc[r] = "armed"
  /\ opKind' = [opKind EXCEPT ![r] = RouteOp(r)]
  /\ IF page[scraper[r]] = "null"
     THEN /\ result' = [result EXCEPT ![r] = "throw"]
          /\ pc' = [pc EXCEPT ![r] = "caught"]
          /\ UNCHANGED opOn
     ELSE /\ opOn' = [opOn EXCEPT ![r] = scraper[r]]
          /\ pc' = [pc EXCEPT ![r] = "race"]
          /\ UNCHANGED result
  /\ UNCHANGED <<qvars, tvars, cvars, shots, pvars, now, registry, nobj, sessionId, page, hasError, kind, reqSid, made,
                 scraper, newSession, resp, hit, closes, lastHit, issued>>

\* outcomes with a continueToSeatMap whose catch block lets the error through
OutcomesRethrowing(op, gone) ==
  IF op = "processQuery"
  THEN IF gone THEN {"error"} ELSE {"ok", "error"}
  ELSE IF op = "navigateToTimeSlotSafely"
  THEN IF gone THEN {"error"} ELSE {"ok", "error", "denied"}
  ELSE {"ok", "error", "errorFlag", "denied", "deniedFlag", "throw"}

\* What an operation can settle to. processQuery and navigateToTimeSlotSafely
\* catch whatever their browser calls raise and return a result with `error`;
\* the catch block of continueToSeatMap calls takeScreenshot, which throws again
\* when the page is gone. "denied": the operation saw the 403 or the
\* Access-Denied content and returned its restriction error; "deniedFlag":
\* continueToSeatMap found no time button, met the denial in its direct
\* navigation to the time slot url, set hasError and returned "Could not find
\* time button".
Outcomes(op, gone) ==
  IF op = "processQuery"
  THEN IF gone THEN {"error"} ELSE {"ok", "error"}
  ELSE IF op = "navigateToTimeSlotSafely"
  THEN IF gone THEN {"error"} ELSE {"ok", "error", "denied"}
  ELSE IF gone THEN {"throw"}
  ELSE {"ok", "error", "errorFlag", "denied", "deniedFlag"}

\* The operation settles. When the timeout has won the race before, the
\* operation was left running and its settling is not looked at any more.
OpFinish(r, out) ==
  /\ opOn[r] # None
  /\ opKind[r] # "preNav"
  /\ out \in Outcomes(opKind[r], page[opOn[r]] = "null")
  /\ page' = [page EXCEPT ![opOn[r]] = IF @ = "null" THEN @ ELSE "site"]
  /\ hasError' = [hasError EXCEPT ![opOn[r]] = @ \/ out \in {"errorFlag", "deniedFlag"}]
  /\ opOn' = [opOn EXCEPT ![r] = None]
  /\ IF pc[r] = "race"
     THEN /\ result' = [result EXCEPT ![r] = out]
          /\ pc' = [pc EXCEPT ![r] = IF out = "throw" THEN "caught" ELSE "respond"]
     ELSE UNCHANGED <<result, pc>>
  /\ UNCHANGED <<qvars, tvars, cvars, shots, pvars, now, registry, nobj, sessionId, kind, reqSid, made, scraper,
                 newSession, opKind, resp, hit, closes, lastHit, issued>>

\* setTimeout(..., SCRAPER_TIMEOUT * 1.5) fires first: Promise.race rejects with
\* "Scraper operation timed out"; the operation itself keeps running.
Timeout(r) ==
  /\ pc[r] = "race"
  /\ result' = [result EXCEPT ![r] = "timeout"]
  /\ pc' = [pc EXCEPT ![r] = "caught"]
  /\ UNCHANGED <<qvars, tvars, cvars, shots, pvars, now, registry, nobj, sessionId, page, hasError, kind, reqSid, made,
                 scraper, newSession, opOn, opKind, resp, hit, closes, lastHit,
                 issued>>

\* the route's catch block of /search sets scraper.hasError
HasErrorAfter(r) ==
  IF kind[r] = "search" /\ pc[r] = "caught" THEN TRUE ELSE hasError[scraper[r]]

\* the condition of the route's finally block
ClosesSession(r) ==
  IF kind[r] = "search" THEN HasErrorAfter(r)
  ELSE newSession[r] /\ HasErrorAfter(r)

\* a catch block with one message for every error
ResponseWithoutTimeoutText(r) ==
  IF pc[r] = "respond"
  THEN [status |-> 200,
        body |-> IF opKind[r] = "navigateToTimeSlotSafely" /\ result[r] = "denied"
                 THEN "restricted"
                 ELSE IF result[r] \in {"errorFlag", "deniedFlag"} THEN "error"
                 ELSE result[r],
        sessionId |-> sessionId[scraper[r]]]
  ELSE [status |-> 500, body |-> "failed", sessionId |-> NoId]

\* the response of the route's try or catch block
Response(r) ==
  IF pc[r] = "respond"
  THEN [status |-> 200,
        body |-> IF opKind[r] = "navigateToTimeSlotSafely" /\ result[r] = "denied"
                 THEN "restricted"
                 ELSE IF result[r] \in {"errorFlag", "deniedFlag"} THEN "error"
                 ELSE result[r],
        sessionId |-> sessionId[scraper[r]]]
  ELSE [status |-> 500,
        body |-> IF result[r] = "timeout" THEN "timeout" ELSE "failed",
        sessionId |-> NoId]

\* The route answers and runs its finally block; close() starts there by
\* deleting this.sessionId from the registry before its first await.
Respond(r) ==
  /\ pc[r] \in {"respond", "caught"}
  /\ resp' = [resp EXCEPT ![r] = Response(r)]
  /\ hasError' = [hasError EXCEPT ![scraper[r]] = HasErrorAfter(r)]
  /\ IF ClosesSession(r)
     THEN /\ registry' = Deregister(registry, scraper[r])
          /\ closes' = closes + 1
          /\ pc' = [pc EXCEPT ![r] = "closing"]
     ELSE /\ pc' = [pc EXCEPT ![r] = "done"]
          /\ UNCHANGED <<registry, closes>>
  /\ issued' = IF kind[r] = "search" /\ pc[r] = "respond"
               THEN issued \cup {scraper[r]} ELSE issued
  /\ UNCHANGED <<qvars, tvars, cvars, shots, pvars, now, nobj, sessionId, page, kind, reqSid, made, scraper,
                 newSession, opOn, opKind, result, hit, lastHit>>

\* close(): page, context and browser are closed and the fields set to null
CloseFinish(r) ==
  /\ pc[r] = "closing"
  /\ page' = [page EXCEPT ![scraper[r]] = "null"]
  /\ pc' = [pc EXCEPT ![r] = "done"]
  /\ UNCHANGED <<qvars, tvars, cvars, shots, pvars, now, registry, nobj, sessionId, hasError, kind, reqSid, made,
                 scraper, newSession, opOn, opKind, result, resp, hit, closes,
                 lastHit, issued>>

\* the request is over; its slot serves the next request
Recycle(r) ==
  /\ pc[r] = "done"
  /\ opOn[r] = None
  /\ pc' = [pc EXCEPT ![r] = "idle"]
  /\ kind' = [kind EXCEPT ![r] = "none"]
  /\ reqSid' = [reqSid EXCEPT ![r] = NoId]
  /\ made' = [made EXCEPT ![r] = None]
  /\ scraper' = [scraper EXCEPT ![r] = None]
  /\ newSession' = [newSession EXCEPT ![r] = FALSE]
  /\ opKind' = [opKind EXCEPT ![r] = "none"]
  /\ result' = [result EXCEPT ![r] = "none"]
  /\ resp' = [resp EXCEPT ![r] = NoResp]
  /\ hit' = [hit EXCEPT ![r] = FALSE]
  /\ UNCHANGED <<qvars, tvars, cvars, shots, pvars, now, registry, nobj, sessionId, page, hasError, opOn, closes,
                 lastHit, issued>>

Next ==
  \/ Tick
  \/ \E r \in Reqs, valid \in BOOLEAN : SearchArrive(r, valid)
  \/ \E r \in Reqs, hasUrl \in BOOLEAN, id \in Ids \cup {NoId}, hasTime \in BOOLEAN :
       SeatArrive(r, hasUrl, id, hasTime)
  \/ \E r \in Reqs, ok \in BOOLEAN : InitDone(r, ok)
  \/ \E r \in Reqs : PreNavBegin(r)
  \/ \E r \in Reqs : PreNavEnd(r)
  \/ \E r \in Reqs : BeginOp(r)
  \/ \E r \in Reqs, out \in {"ok", "error", "errorFlag", "denied", "deniedFlag", "throw"} :
       OpFinish(r, out)
  \/ \E r \in Reqs : Timeout(r)
  \/ \E r \in Reqs : Respond(r)
  \/ \E r \in Reqs : CloseFinish(r)
  \/ \E r \in Reqs : Recycle(r)

Spec == Init /\ [][Next]_vars

\* The same server under the scheduling of the event loop: a timer that was set
\* fires unless the race was decided before, the continuation of a settled
\* await runs, and the close() calls of the finally block settle.
\* Each request slot serves one request.
LNext ==
  \/ Tick
  \/ \E r \in Reqs, valid \in BOOLEAN : SearchArrive(r, valid)
  \/ \E r \in Reqs, hasUrl \in BOOLEAN, id \in Ids \cup {NoId}, hasTime \in BOOLEAN :
       SeatArrive(r, hasUrl, id, hasTime)
  \/ \E r \in Reqs, ok \in BOOLEAN : InitDone(r, ok)
  \/ \E r \in Reqs : PreNavBegin(r)
  \/ \E r \in Reqs : PreNavEnd(r)
  \/ \E r \in Reqs : BeginOp(r)
  \/ \E r \in Reqs, out \in {"ok", "error", "errorFlag", "denied", "deniedFlag", "throw"} :
       OpFinish(r, out)
  \/ \E r \in Reqs : Timeout(r)
  \/ \E r \in Reqs : Respond(r)
  \/ \E r \in Reqs : CloseFinish(r)

SpecLive ==
  /\ Init /\ [][LNext]_vars
  /\ \A r \in Reqs : WF_vars(Timeout(r)) /\ WF_vars(Respond(r)) /\ WF_vars(CloseFinish(r))

(***************************************************************************)
(* Strings are sequences of one-character strings; the operators below are  *)
(* the JavaScript string functions the time parsers use.                   *)
(***************************************************************************)
Digit == <<"0", "1", "2", "3", "4", "5", "6", "7", "8", "9">>
IsDigit(c) == \E i \in 1..10 : Digit[i] = c
DigitVal(c) == (CHOOSE i \in 1..10 : Digit[i] = c) - 1

\* the value parseInt and arithmetic give for "not a number"
NaN == -1

RECURSIVE NumVal(_)
NumVal(s) == IF s = <<>> THEN 0
             ELSE NumVal(SubSeq(s, 1, Len(s) - 1)) * 10 + DigitVal(s[Len(s)])

\* String.prototype.trim (the only white space of the model is " ")
RECURSIVE TrimLeft(_)
TrimLeft(s) == IF s # <<>> /\ s[1] = " " THEN TrimLeft(Tail(s)) ELSE s
RECURSIVE TrimRight(_)
TrimRight(s) == IF s # <<>> /\ s[Len(s)] = " "
                THEN TrimRight(SubSeq(s, 1, Len(s) - 1)) ELSE s
Trim(s) == TrimRight(TrimLeft(s))

\* parseInt(s, 10): white space is skipped, the longest prefix of digits is the
\* value, and without a digit the value is NaN
LeadDigits(s) ==
  CHOOSE k \in 0..Len(s) :
    /\ \A i \in 1..k : IsDigit(s[i])
    /\ k = Len(s) \/ ~IsDigit(s[k + 1])
ParseInt(s) ==
  LET t == TrimLeft(s)
      k == LeadDigits(t)
  IN IF k = 0 THEN NaN ELSE NumVal(SubSeq(t, 1, k))

\* String.prototype.toLowerCase
LowerChar(c) == CASE c = "A" -> "a" [] c = "P" -> "p" [] c = "M" -> "m"
                  [] c = "N" -> "n" [] OTHER -> c
ToLower(s) == [i \in 1..Len(s) |-> LowerChar(s[i])]

\* String.prototype.indexOf, plus one (0 = not found)
IndexOf(s, sub) ==
  LET hits == {i \in 1..(Len(s) - Len(sub) + 1) : SubSeq(s, i, i + Len(sub) - 1) = sub}
  IN IF hits = {} THEN 0 ELSE CHOOSE i \in hits : \A j \in hits : i <= j
Includes(s, sub) == IndexOf(s, sub) # 0
EndsWith(s, sub) ==
  Len(s) >= Len(sub) /\ SubSeq(s, Len(s) - Len(sub) + 1, Len(s)) = sub

\* String.prototype.replace with a string pattern: the first occurrence only
Replace(s, sub, rep) ==
  LET i == IndexOf(s, sub)
  IN IF i = 0 THEN s
     ELSE SubSeq(s, 1, i - 1) \o rep \o SubSeq(s, i + Len(sub), Len(s))

\* String.prototype.split
RECURSIVE Split(_, _)
Split(s, sep) ==
  LET i == IndexOf(s, sep)
  IN IF i = 0 THEN <<s>>
     ELSE <<SubSeq(s, 1, i - 1)>> \o Split(SubSeq(s, i + Len(sep), Len(s)), sep)

\* parts[n] || "0"  (n counted from 0)
PartOrZero(parts, n) ==
  IF Len(parts) > n /\ parts[n + 1] # <<>> THEN parts[n + 1] ELSE <<"0">>
\* parseInt(parts[n]) where parts[n] may be undefined
ParseIntPart(parts, n) == IF Len(parts) > n THEN ParseInt(parts[n + 1]) ELSE NaN

\* s.slice(0, -1), s.substring(a, b), s.slice(a)
DropLast(s) == SubSeq(s, 1, Len(s) - 1)
Substring(s, a, b) ==
  SubSeq(s, a + 1, IF b < Len(s) THEN b ELSE Len(s))
SliceFrom(s, a) == SubSeq(s, a + 1, Len(s))

\* arithmetic and comparison with NaN
Minutes(h, m) == IF h = NaN \/ m = NaN THEN NaN ELSE h * 60 + m
Lt(a, b) == a # NaN /\ b # NaN /\ a < b
Leq(a, b) == a # NaN /\ b # NaN /\ a <= b
StrictEq(a, b) == a # NaN /\ b # NaN /\ a = b

\* Number.prototype.toString and padStart(2, "0")
RECURSIVE NatStr(_)
NatStr(n) == IF n < 10 THEN <<Digit[n + 1]>>
             ELSE NatStr(n \div 10) \o <<Digit[(n % 10) + 1]>>
NumStr(n) == IF n = NaN THEN <<"N", "a", "N">> ELSE NatStr(n)
Pad2(s) == IF Len(s) < 2 THEN <<"0">> \o s ELSE s

(***************************************************************************)
(* The time parsers                                                        *)
(***************************************************************************)
\* 12-hour adjustment shared by parseTime and timeStringToMinutes:
\*   if (isPM && hours < 12) hours += 12;  if (!isPM && hours === 12) hours = 0
To24NoMidnight(hours, isPM) ==
  IF isPM /\ Lt(hours, 12) THEN hours + 12 ELSE hours
To24(hours, isPM) ==
  IF isPM /\ Lt(hours, 12) THEN hours + 12
  ELSE IF ~isPM /\ StrictEq(hours, 12) THEN 0
  ELSE hours

\* the indicator a trimmed text carries, by the tests of parseTime in their
\* order: endsWith("a"), endsWith("p"), lower-cased includes("am"), ("pm")
Meridiem(t) ==
  IF EndsWith(t, <<"a">>) THEN "a"
  ELSE IF EndsWith(t, <<"p">>) THEN "p"
  ELSE IF Includes(ToLower(t), <<"a", "m">>) THEN "am"
  ELSE IF Includes(ToLower(t), <<"p", "m">>) THEN "pm"
  ELSE ""
\* timeStr.slice(0, -1)  |  timeStr.toLowerCase().replace("am", "").trim()
WithoutMeridiem(t, mer) ==
  IF mer \in {"a", "p"} THEN DropLast(t)
  ELSE IF mer = "am" THEN Trim(Replace(ToLower(t), <<"a", "m">>, <<>>))
  ELSE IF mer = "pm" THEN Trim(Replace(ToLower(t), <<"p", "m">>, <<>>))
  ELSE t
\* the colon / 4-digit / 1-2 digit / 3-digit cases of parseTime
ClockHours(t) ==
  IF Includes(t, <<":">>) THEN ParseIntPart(Split(t, <<":">>), 0)
  ELSE IF Len(t) = 4 THEN ParseInt(Substring(t, 0, 2))
  ELSE IF Len(t) <= 2 THEN ParseInt(t)
  ELSE IF Len(t) = 3 THEN ParseInt(Substring(t, 0, 1))
  ELSE 0
ClockMinutes(t) ==
  IF Includes(t, <<":">>) THEN ParseIntPart(Split(t, <<":">>), 1)
  ELSE IF Len(t) = 4 THEN ParseInt(Substring(t, 2, 4))
  ELSE IF Len(t) <= 2 THEN 0
  ELSE IF Len(t) = 3 THEN ParseInt(Substring(t, 1, 3))
  ELSE 0
ClockOf(t, isPM) == Minutes(To24(ClockHours(t), isPM), ClockMinutes(t))
ParseTrimmed(t, mer) == ClockOf(WithoutMeridiem(t, mer), mer \in {"p", "pm"})

\* parseTime of findMovieOnTheaterPage (evaluated in the page)
parseTime(timeStr) ==
  IF timeStr = <<>> THEN 0
  ELSE ParseTrimmed(Trim(timeStr), Meridiem(Trim(timeStr)))

\* FandangoScraper.timeStringToMinutes
\* normalized.endsWith("a") || normalized.endsWith("am"), then the same with p
SuffixOf(normalized) ==
  IF EndsWith(normalized, <<"a">>) \/ EndsWith(normalized, <<"a", "m">>) THEN "am"
  ELSE IF EndsWith(normalized, <<"p">>) \/ EndsWith(normalized, <<"p", "m">>) THEN "pm"
  ELSE ""
\* normalized.replace("am", "").replace("a", "")
TimePart(normalized, suffix) ==
  IF suffix = "am" THEN Replace(Replace(normalized, <<"a", "m">>, <<>>), <<"a">>, <<>>)
  ELSE IF suffix = "pm" THEN Replace(Replace(normalized, <<"p", "m">>, <<>>), <<"p">>, <<>>)
  ELSE normalized
PartHours(part, suffix) ==
  IF Includes(part, <<":">>) THEN ParseIntPart(Split(part, <<":">>), 0)
  ELSE IF suffix # "" THEN ParseInt(part)
  ELSE IF Len(part) = 4 THEN ParseInt(Substring(part, 0, 2))
  ELSE IF Len(part) <= 2 THEN ParseInt(part)
  ELSE 0
PartMinutes(part, suffix) ==
  IF Includes(part, <<":">>) THEN ParseIntPart(Split(part, <<":">>), 1)
  ELSE IF suffix = "" /\ Len(part) = 4 THEN ParseInt(Substring(part, 2, 4))
  ELSE 0
\* "Assume PM for times like 1:00-7:00 without AM/PM indicator"
AssumedPM(part, suffix, hours) ==
  IF suffix # "" THEN suffix = "pm"
  ELSE IF Includes(part, <<":">>) \/ Len(part) = 4 \/ Len(part) <= 2 THEN Lt(hours, 8)
  ELSE FALSE
PartClock(part, suffix, hours) ==
  Minutes(To24(hours, AssumedPM(part, suffix, hours)), PartMinutes(part, suffix))
PartParsed(part, suffix) == PartClock(part, suffix, PartHours(part, suffix))
Normalized(normalized, suffix) == PartParsed(TimePart(normalized, suffix), suffix)
timeStringToMinutes(timeStr) ==
  Normalized(ToLower(Trim(timeStr)), SuffixOf(ToLower(Trim(timeStr))))

(***************************************************************************)
(* findMovieOnTheaterPage: highlighting                                    *)
(*   a time filter is [has, start, end]: has = a time_range object was     *)
(*   passed, start/end = its bounds (<<>> when absent);                    *)
(*   specific times are [given, list]: given = an array was passed.        *)
(***************************************************************************)
\* timeFilter?.start?.replace(":", "") || ""
StripColon(bound) == Replace(bound, <<":">>, <<>>)

\* buttonTime >= startMinutes && buttonTime <= endMinutes
InRange(t, lo, hi) == Leq(lo, t) /\ Leq(t, hi)

\* --- container path (the function evaluated in the page) ---
\* `${Math.floor(minutes / 60)}:${(minutes % 60).toString().padStart(2, "0")}`
StandardFormat(minutes) ==
  IF minutes = NaN THEN <<"N", "a", "N", ":", "N", "a", "N">>
  ELSE NatStr(minutes \div 60) \o <<":">> \o Pad2(NatStr(minutes % 60))

\* h > 12 ? h - 12 : h || 12
Hour12(h) == IF h > 12 THEN h - 12 ELSE IF h = 0 THEN 12 ELSE h
\* `${h > 12 ? h - 12 : h || 12}:${mm}${h >= 12 ? "p" : "a"}`
AmPmFormat(minutes) ==
  IF minutes = NaN THEN <<"1", "2", ":", "N", "a", "N", "a">>
  ELSE NatStr(Hour12(minutes \div 60)) \o <<":">> \o Pad2(NatStr(minutes % 60))
       \o (IF minutes \div 60 >= 12 THEN <<"p">> ELSE <<"a">>)

\* startMinutes = startTime ? parseTime(startTime) : 0
StartMinutes(startTime) == IF startTime # <<>> THEN parseTime(startTime) ELSE 0
\* endMinutes = endTime ? parseTime(endTime) : 24 * 60 - 1
EndMinutes(endTime) == IF endTime # <<>> THEN parseTime(endTime) ELSE 24 * 60 - 1

ContainerRangeMatch(buttonTime, startTime, endTime) ==
  /\ startTime # <<>> /\ endTime # <<>>
  /\ InRange(buttonTime, StartMinutes(startTime), EndMinutes(endTime))

\* the comparisons with amPm and its " AM" / " PM" variants
AmPmMatch(buttonTimeLower, amPm) ==
  \/ buttonTimeLower = ToLower(amPm)
  \/ buttonTimeLower = ToLower(Replace(amPm, <<"a">>, <<" ", "A", "M">>))
  \/ buttonTimeLower = ToLower(Replace(amPm, <<"p">>, <<" ", "P", "M">>))
\* one element of processedSpecificTimes against one button
ProcessedMatch(buttonTimeLower, buttonTime, originalFormat, minutes) ==
  \/ StrictEq(buttonTime, minutes)
  \/ buttonTimeLower = ToLower(originalFormat)
  \/ buttonTimeLower = ToLower(StandardFormat(minutes))
  \/ AmPmMatch(buttonTimeLower, AmPmFormat(minutes))
ContainerSpecificMatch(timeText, buttonTime, specificTime) ==
  ProcessedMatch(ToLower(timeText), buttonTime, specificTime, parseTime(specificTime))

ShouldHighlight(timeText, buttonTime, startTime, endTime, specificTimes) ==
  \/ ContainerRangeMatch(buttonTime, startTime, endTime)
  \/ \E i \in 1..Len(specificTimes) :
       ContainerSpecificMatch(timeText, buttonTime, specificTimes[i])

ContainerHighlight(timeText, filter, spec) ==
  IF filter.has \/ spec.given
  THEN ShouldHighlight(timeText, parseTime(timeText), StripColon(filter.start),
                       StripColon(filter.end), spec.list)
  ELSE \* "If no time filter, extract all time slots": none is highlighted
       FALSE

\* --- direct path (no container id): the parsing is written out inline ---
\* slotTime.slice(0, -1)  |  slotTime.toLowerCase().split("am")[0].trim()
DirectBody(slotTime, mer) ==
  IF mer \in {"a", "p"} THEN DropLast(slotTime)
  ELSE IF mer = "am" THEN Trim(Split(ToLower(slotTime), <<"a", "m">>)[1])
  ELSE IF mer = "pm" THEN Trim(Split(ToLower(slotTime), <<"p", "m">>)[1])
  ELSE slotTime
DirectHours(body, mer) ==
  IF mer # "" \/ Includes(body, <<":">>) THEN ParseIntPart(Split(body, <<":">>), 0) ELSE 0
\* parseInt(....split(":")[1] || "0")  |  parseInt(slotTime.split(":")[1])
DirectMinutes(body, mer) ==
  IF mer # "" THEN ParseInt(PartOrZero(Split(body, <<":">>), 1))
  ELSE IF Includes(body, <<":">>) THEN ParseIntPart(Split(body, <<":">>), 1)
  ELSE 0
\* if (hours < 12) hours += 12  (in the two PM cases only)
DirectClock(hours, isPM, minutes) ==
  Minutes(IF isPM /\ Lt(hours, 12) THEN hours + 12 ELSE hours, minutes)
DirectParsed(body, mer) ==
  DirectClock(DirectHours(body, mer), mer \in {"p", "pm"}, DirectMinutes(body, mer))
DirectTrimmed(slotTime, mer) == DirectParsed(DirectBody(slotTime, mer), mer)
DirectSlotMinutes(time) == DirectTrimmed(Trim(time), Meridiem(Trim(time)))

\* parseInt(startTime.slice(0, 2)) * 60 + parseInt(startTime.slice(2))
DirectBoundMinutes(bound) ==
  Minutes(ParseInt(Substring(bound, 0, 2)), ParseInt(SliceFrom(bound, 2)))

DirectRangeMatch(slotMinutes, startTime, endTime) ==
  /\ startTime # <<>> /\ endTime # <<>>
  /\ InRange(slotMinutes, DirectBoundMinutes(startTime), DirectBoundMinutes(endTime))

DirectSpecificMinutes(specificTime) ==
  IF Includes(specificTime, <<":">>)
  THEN Minutes(ParseIntPart(Split(specificTime, <<":">>), 0),
               ParseIntPart(Split(specificTime, <<":">>), 1))
  ELSE IF Len(specificTime) = 4
  THEN Minutes(ParseInt(Substring(specificTime, 0, 2)), ParseInt(SliceFrom(specificTime, 2)))
  ELSE 0

DirectSpecificMatch(slotMinutes, specificTime) ==
  StrictEq(slotMinutes, DirectSpecificMinutes(specificTime))

DirectMatch(slotMinutes, startTime, endTime, specificTimes) ==
  \/ DirectRangeMatch(slotMinutes, startTime, endTime)
  \/ \E i \in 1..Len(specificTimes) : DirectSpecificMatch(slotMinutes, specificTimes[i])

DirectHighlight(slot, filter, spec) ==
  IF filter.has \/ spec.given
  THEN /\ slot.time # <<>>
       /\ DirectMatch(DirectSlotMinutes(slot.time), StripColon(filter.start),
                      StripColon(filter.end), spec.list)
  ELSE \* "Only highlight times that have valid URLs (available, not expired)"
       slot.url # "undefined"

(***************************************************************************)
(* findMovieOnTheaterPage: what the theater page shows                     *)
(***************************************************************************)
\* innerText of the elements the showtime selectors match
ButtonTexts ==
  { <<"5", ":", "1", "0", "p">>,
    <<"4", ":", "5", "9", "p">>,
    <<"5", ":", "0", "0", "p">>,
    <<"6", ":", "0", "0", "p">>,
    <<"6", ":", "0", "1", "p">>,
    <<"1", "1", ":", "0", "0", "a">>,
    <<"1", "2", ":", "3", "0", "p">>,
    <<"1", "2", ":", "0", "0", "a">>,
    <<"1", "7", "1", "0">>,
    <<"1", "7", ":", "1", "0">>,
    <<"5", ":", "1", "0", " ", "P", "M">>,
    <<" ", "7", ":", "4", "5", "p", " ">>,
    <<>>,
    <<"B", "u", "y", " ", "T", "i", "c", "k", "e", "t", "s", " ", "N", "o", "w">> }
\* href of the button or of the link around it ("" when it has none)
Hrefs == {"", "/ticketing?row=1"}
Button(text, href) == [text |-> text, href |-> href]
\* the listing of an afternoon, and the listing of a day as the site writes it
\* and in 24-hour texts
AfternoonListing ==
  <<Button(<<"4", ":", "5", "9", "p">>, "/ticketing?row=1"), Button(<<"5", ":", "0", "0", "p">>, "/ticketing?row=2"),
    Button(<<"5", ":", "1", "0", "p">>, "/ticketing?row=3"), Button(<<"6", ":", "0", "0", "p">>, "/ticketing?row=4"),
    Button(<<"6", ":", "0", "1", "p">>, "")>>
DayListing ==
  <<Button(<<"1", ":", "2", "0", "p">>, ""), Button(<<"5", ":", "4", "5", "p">>, "/ticketing?row=2"),
    Button(<<"8", ":", "1", "0", "p">>, "/ticketing?row=3"), Button(<<"1", "1", ":", "0", "0", "p">>, "/ticketing?row=4")>>
DayListing24 ==
  <<Button(<<"1", "3", ":", "2", "0">>, ""), Button(<<"1", "7", ":", "4", "5">>, "/ticketing?row=2"),
    Button(<<"2", "0", ":", "1", "0">>, "/ticketing?row=3"), Button(<<"2", "3", ":", "0", "0">>, "/ticketing?row=4")>>
\* the showtime buttons of the movie's section: one button of any kind, or one
\* of the listings
ButtonLists ==
  {<<>>}
  \cup {<<Button(t, h)>> : t \in ButtonTexts, h \in Hrefs}
  \cup {AfternoonListing, DayListing, DayListing24}
  \* elements that are no showtimes among the buttons
  \cup {<<Button(<<>>, "/ticketing?row=1"),
          Button(<<"B", "u", "y", " ", "T", "i", "c", "k", "e", "t", "s", " ", "N", "o", "w">>,
                 "/ticketing?row=1"),
          Button(<<"5", ":", "1", "0", "p">>, ""),
          Button(<<"6", ":", "0", "0", "p">>, "/ticketing?row=2")>>}

\* The facts of the page the extractor looks at:
\*   section          the movie listings section exists
\*   match            how the title is found: by one of the selectors ("exact"),
\*                    by the partial match on an element with / without an id
\*   title            innerText of the matched title element
\*   containerId      the movie's container has an id
\*   containerPresent locator(#id).count() > 0
\*   raises           a browser operation raises: before the title is looked
\*                    for ("early"), or in the evaluate that harvests ("harvest");
\*                    "gone": this.page is null when the extractor is called
Pages ==
  {[NoButtonsPage EXCEPT !.theaterName = n, !.raises = r] :
      n \in {"", "AMC River East 21"}, r \in {"none", "early"}}
  \cup {[NoButtonsPage EXCEPT !.raises = "gone"]}
  \cup {[NoButtonsPage EXCEPT !.section = TRUE, !.match = m, !.title = t] :
      m \in {"none", "partialNoId"}, t \in {"DUNE: PART TWO"}}
  \cup UNION {
       {[theaterName |-> "AMC River East 21", section |-> TRUE, match |-> f.m,
         title |-> f.t, containerId |-> f.c, containerPresent |-> f.c /\ f.cp,
         raises |-> f.r, buttons |-> b] :
          b \in IF f.r = "none" /\ (f.cp \/ ~f.c) THEN ButtonLists ELSE {<<>>}} :
       f \in [m : {"exact", "partialId"}, t : {"Dune", "DUNE: PART TWO"},
              c : BOOLEAN, cp : BOOLEAN, r : {"none", "harvest"}]}

\* the forEach over the matched buttons:
\*   if (!timeText || timeText.length > 10) return;  url: url || undefined
\* (an absent url is written "undefined")
\* a harvest that would take every matched element as it is
RECURSIVE HarvestEveryElement(_)
HarvestEveryElement(buttons) ==
  IF buttons = <<>> THEN <<>>
  ELSE <<[time |-> Trim(Head(buttons).text), url |-> Head(buttons).href,
          isHighlighted |-> FALSE]>>
       \o HarvestEveryElement(Tail(buttons))
RECURSIVE Harvest(_)
Harvest(buttons) ==
  IF buttons = <<>> THEN <<>>
  ELSE LET timeText == Trim(Head(buttons).text)
           url == Head(buttons).href
       IN (IF timeText = <<>> \/ Len(timeText) > 10 THEN <<>>
           ELSE <<[time |-> timeText,
                   url |-> IF url # "" THEN url ELSE "undefined",
                   isHighlighted |-> FALSE]>>)
          \o Harvest(Tail(buttons))

DirectSlots(buttons, filter, spec) ==
  LET slots == Harvest(buttons)
  IN [i \in 1..Len(slots) |->
        [slots[i] EXCEPT !.isHighlighted = DirectHighlight(slots[i], filter, spec)]]

\* a container extraction that would keep the matching slots only
ContainerSlotsMatchingOnly(buttons, filter, spec) ==
  SelectSeq(Harvest(buttons), LAMBDA slot : ContainerHighlight(slot.time, filter, spec))
ContainerSlots(buttons, filter, spec) ==
  LET slots == Harvest(buttons)
  IN [i \in 1..Len(slots) |->
        [slots[i] EXCEPT !.isHighlighted =
                            ContainerHighlight(slots[i].time, filter, spec)]]

\* which extraction the page leads to
PathOf(pg) ==
  IF pg.raises \in {"early", "gone"} \/ ~pg.section
     \/ pg.match \in {"none", "partialNoId"}
  THEN "none"
  ELSE IF ~pg.containerId THEN "direct" ELSE "container"

findMovieOnTheaterPage(pg, movie, filter, spec) ==
  LET movieTitle == IF pg.raises = "early" \/ ~pg.section \/ pg.match = "none"
                    THEN movie ELSE pg.title
      res == [NoMovieResult EXCEPT !.movieTitle = movieTitle,
                                   !.theaterName = pg.theaterName]
  IN IF pg.raises = "early"
     THEN [res EXCEPT !.error = "Error finding movie on theater page"]
     ELSE IF ~pg.section
     THEN [res EXCEPT !.error = "Movie listings section not found on theater page",
                      !.screenshots = <<"debug_full_page">>]
     ELSE IF pg.match \in {"none", "partialNoId"}
     THEN [res EXCEPT !.error = "Movie not found on theater page",
                      !.screenshots = <<"debug_full_page">>]
     ELSE IF ~pg.containerId
     THEN \* the evaluate of the direct path has a catch of its own
          [res EXCEPT !.success = TRUE,
                      !.screenshots = <<"movie_direct">>,
                      !.timeSlots = IF pg.raises = "harvest" THEN <<>>
                                    ELSE DirectSlots(pg.buttons, filter, spec)]
     ELSE IF ~pg.containerPresent
     THEN [res EXCEPT !.success = TRUE]
     ELSE IF pg.raises = "harvest"
     THEN [res EXCEPT !.error = "Error finding movie on theater page"]
     ELSE [res EXCEPT !.success = TRUE,
                      !.screenshots = IF filter.has \/ spec.given
                                      THEN <<"movie_filtered_times">>
                                      ELSE <<"movie">>,
                      !.timeSlots = ContainerSlots(pg.buttons, filter, spec)]

(***************************************************************************)
(* processQuery. One action per awaited call: the action is the settling   *)
(* of the call named by qpc together with the code that follows it up to   *)
(* the next await or the return.                                           *)
(***************************************************************************)
\* query times
S1700 == <<"1", "7", ":", "0", "0">>
S1800 == <<"1", "8", ":", "0", "0">>
S1200 == <<"1", "2", ":", "0", "0">>
S1300 == <<"1", "3", ":", "0", "0">>
S2200 == <<"2", "2", ":", "0", "0">>
S1710 == <<"1", "7", ":", "1", "0">>
S510p == <<"5", ":", "1", "0", "p">>
S1230 == <<"1", "2", ":", "3", "0">>
TimeRange(start, end) == [has |-> TRUE, start |-> start, end |-> end]
TimeRanges ==
  {NoFilter,
   TimeRange(S1700, S1800),
   TimeRange(S1200, S1300),
   TimeRange(S1700, S2200),
   TimeRange(S1700, <<>>),
   TimeRange(<<>>, S1800)}
SpecificTimes ==
  {NoSpecific} \cup
  {[given |-> TRUE, list |-> l] :
     l \in {<<>>, <<S1710>>, <<S510p>>, <<S1230>>}}
Queries ==
  [movie : {"", "Dune"}, theater : {"", "AMC"}, location : {"", "Chicago"},
   time_range : TimeRanges, specific_times : SpecificTimes]

\* what a navigator settles to: "ok", a returned `error`, or "throw"
CityOutcomes ==
  {"ok", "throw", "No cities section found in search results",
   "City link not found"}
TheaterOutcomes ==
  {"ok", "throw", "No theaters section found in search results",
   "Theater link not found"}
NearbyOutcomes ==
  {"ok", "throw", "Theater not found in nearby theaters dropdown or navigation failed"}
MovieOutcomes == {"ok", "throw", "No movies section found in search results"}

QInit ==
  /\ NoSessions /\ TimeOff /\ NotClosing /\ PageOff
  /\ query \in Queries
  /\ qsid \in Ids
  /\ qpc = "start"
  /\ calls = <<>>
  /\ results = NoResults
  /\ movieResult = NoMovieResult
  /\ extractPath = "none"
  /\ qpage = NoButtonsPage

\* the next call is made
Goto(label, fn) == qpc' = label /\ calls' = Append(calls, fn)
\* `return results`
Return(res) == qpc' = "returned" /\ results' = res /\ calls' = calls
\* a catch block that answers with a new object
CatchWithNewResult == Return([NoResults EXCEPT !.error = "Error processing query"])
\* the catch block of processQuery, followed by `return results`
Catch == Return([results EXCEPT !.error = "Error processing query"])

\* const specificTimes = query.specific_times || []
SpecificOrEmpty(q) == [given |-> TRUE, list |-> q.specific_times.list]

\* FLOW 1, FLOW 2, FLOW 3 and the final else of processQuery
Flows ==
  IF query.location # ""
  THEN Goto("searchCity", "searchCity") /\ results' = results
  ELSE IF query.theater # ""
  THEN Goto("searchTheater_only", "searchTheater") /\ results' = results
  ELSE IF query.movie # ""
  THEN Goto("searchMovie", "searchMovie") /\ results' = results
  ELSE Return([results EXCEPT !.error = "No valid search parameters provided"])

\* the copy made in the movie + theater branch
CopyAll(res, mr) ==
  [res EXCEPT !.screenshots = @ \o mr.screenshots,
              !.timeSlots = IF mr.timeSlots # <<>> THEN mr.timeSlots ELSE @,
              !.movieTitle = IF mr.movieTitle # "" THEN mr.movieTitle ELSE @,
              !.theaterName = IF mr.theaterName # "" THEN mr.theaterName ELSE @,
              !.error = IF mr.error # "" THEN mr.error ELSE @]
\* the copy made in the other branches
CopyScreenshotsAndError(res, mr) ==
  [res EXCEPT !.screenshots = @ \o mr.screenshots,
              !.error = IF mr.error # "" THEN mr.error ELSE @]

\* processQuery is called: `if (!this.page) throw`, `results` is created and
\* navigateToFandango is called
BeginQuery(pageOk) ==
  /\ qpc = "start"
  /\ IF pageOk
     THEN /\ results' = [NoResults EXCEPT !.message = "Processing complete",
                                          !.sessionId = qsid]
          /\ Goto("navigateToFandango", "navigateToFandango")
     ELSE qpc' = "threw" /\ UNCHANGED <<results, calls>>
  /\ UNCHANGED <<svars, tvars, cvars, shots, pvars, query, qsid, movieResult, extractPath, qpage>>

\* navigateToFandango settled (it throws only when the page is gone)
Navigated(out) ==
  /\ qpc = "navigateToFandango"
  /\ IF out = "throw" THEN Catch
     ELSE IF query.movie # "" /\ query.theater # ""
     THEN Goto("searchTheater_first", "searchTheater") /\ results' = results
     ELSE Flows
  /\ UNCHANGED <<svars, tvars, cvars, shots, pvars, query, qsid, movieResult, extractPath, qpage>>

\* `if (query.movie && query.theater)`: searchTheater settled. When it returned
\* an error the if statement ends without a return and the flows follow.
TheaterFirst(out) ==
  /\ qpc = "searchTheater_first"
  /\ IF out = "throw" THEN Catch
     ELSE IF out = "ok"
     THEN Goto("extract_first", "findMovieOnTheaterPage") /\ results' = results
     ELSE Flows
  /\ UNCHANGED <<svars, tvars, cvars, shots, pvars, query, qsid, movieResult, extractPath, qpage>>

\* findMovieOnTheaterPage(query.movie, timeFilter, specificTimes)
FindMovie(pg) ==
  findMovieOnTheaterPage(pg, query.movie, query.time_range, SpecificOrEmpty(query))

\* findMovieOnTheaterPage settled (all: the branch copies every property); `if (!this.page) throw` is outside its try
Extracted(pg, mr, all) ==
  /\ IF pg.raises = "gone"
     THEN Catch /\ UNCHANGED <<movieResult, extractPath, qpage>>
     ELSE /\ movieResult' = mr
          /\ extractPath' = PathOf(pg)
          /\ qpage' = pg
          /\ Return(IF all THEN CopyAll(results, mr)
                    ELSE CopyScreenshotsAndError(results, mr))
  /\ UNCHANGED <<svars, tvars, cvars, shots, pvars, query, qsid>>

ExtractFirst(pg) == qpc = "extract_first" /\ Extracted(pg, FindMovie(pg), TRUE)

\* searchCity settled, its error taken for a success
CitySearchedIgnoringError(out) ==
  /\ qpc = "searchCity"
  /\ IF out = "throw" THEN Catch
     ELSE IF query.theater # ""
     THEN Goto("selectNearbyTheater", "selectNearbyTheater") /\ results' = results
     ELSE Return(results)
  /\ UNCHANGED <<svars, tvars, cvars, shots, pvars, query, qsid, movieResult, extractPath, qpage>>

\* FLOW 1: searchCity settled
CitySearched(out) ==
  /\ qpc = "searchCity"
  /\ IF out = "throw" THEN Catch
     ELSE IF out # "ok" THEN Return([results EXCEPT !.error = out])
     ELSE IF query.theater # ""
     THEN Goto("selectNearbyTheater", "selectNearbyTheater") /\ results' = results
     ELSE Return(results)
  /\ UNCHANGED <<svars, tvars, cvars, shots, pvars, query, qsid, movieResult, extractPath, qpage>>

\* selectNearbyTheater settled, its error returned without a fallback
NearbySelectedWithoutFallback(out) ==
  /\ qpc = "selectNearbyTheater"
  /\ IF out = "throw" THEN Catch
     ELSE IF out = "ok"
     THEN IF query.movie # ""
          THEN Goto("extract_nearby", "findMovieOnTheaterPage") /\ results' = results
          ELSE Return(results)
     ELSE Return([results EXCEPT !.error = out])
  /\ UNCHANGED <<svars, tvars, cvars, shots, pvars, query, qsid, movieResult, extractPath, qpage>>

\* FLOW 1.1: selectNearbyTheater settled
NearbySelected(out) ==
  /\ qpc = "selectNearbyTheater"
  /\ IF out = "throw" THEN Catch
     ELSE IF out = "ok"
     THEN IF query.movie # ""
          THEN Goto("extract_nearby", "findMovieOnTheaterPage") /\ results' = results
          ELSE Return(results)
     ELSE Goto("searchTheater_fallback", "searchTheater") /\ results' = results
  /\ UNCHANGED <<svars, tvars, cvars, shots, pvars, query, qsid, movieResult, extractPath, qpage>>

ExtractAfterNearby(pg) ==
  qpc = "extract_nearby" /\ Extracted(pg, FindMovie(pg), FALSE)

\* searchTheater settled, in the fallback of FLOW 1.1 and in FLOW 2
TheaterSearched(out, extractLabel) ==
  /\ IF out = "throw" THEN Catch
     ELSE IF out # "ok" THEN Return([results EXCEPT !.error = out])
     ELSE IF query.movie # ""
     THEN Goto(extractLabel, "findMovieOnTheaterPage") /\ results' = results
     ELSE Return(results)
  /\ UNCHANGED <<svars, tvars, cvars, shots, pvars, query, qsid, movieResult, extractPath, qpage>>

TheaterFallback(out) ==
  qpc = "searchTheater_fallback" /\ TheaterSearched(out, "extract_fallback")
ExtractAfterFallback(pg) ==
  qpc = "extract_fallback" /\ Extracted(pg, FindMovie(pg), FALSE)

TheaterOnly(out) ==
  qpc = "searchTheater_only" /\ TheaterSearched(out, "extract_only")
ExtractAfterTheater(pg) ==
  qpc = "extract_only" /\ Extracted(pg, FindMovie(pg), FALSE)

\* FLOW 3: searchMovie settled
MovieSearched(out) ==
  /\ qpc = "searchMovie"
  /\ IF out = "throw" THEN Catch
     ELSE IF out # "ok" THEN Return([results EXCEPT !.error = out])
     ELSE Return(results)
  /\ UNCHANGED <<svars, tvars, cvars, shots, pvars, query, qsid, movieResult, extractPath, qpage>>

QNext ==
  \/ \E pageOk \in BOOLEAN : BeginQuery(pageOk)
  \/ \E out \in {"ok", "throw"} : Navigated(out)
  \/ \E out \in TheaterOutcomes : TheaterFirst(out)
  \/ \E pg \in Pages : ExtractFirst(pg)
  \/ \E out \in CityOutcomes : CitySearched(out)
  \/ \E out \in NearbyOutcomes : NearbySelected(out)
  \/ \E pg \in Pages : ExtractAfterNearby(pg)
  \/ \E out \in TheaterOutcomes : TheaterFallback(out)
  \/ \E pg \in Pages : ExtractAfterFallback(pg)
  \/ \E out \in TheaterOutcomes : TheaterOnly(out)
  \/ \E pg \in Pages : ExtractAfterTheater(pg)
  \/ \E out \in MovieOutcomes : MovieSearched(out)

SpecQuery == QInit /\ [][QNext]_vars

(***************************************************************************)
(* The time parsers applied to one text                                    *)
(***************************************************************************)
\* minutes of the day the sample texts are written for
DayMinutes == {60 * h + m : h \in 0..23, m \in {0, 10, 30}}
TwentyFour(minutes) == Pad2(NatStr(minutes \div 60)) \o Pad2(NatStr(minutes % 60))
\* the ways a showtime or a query time is written, and texts that are no time
TimeTexts ==
  UNION {{AmPmFormat(t), AmPmFormat(t) \o <<"m">>, StandardFormat(t), TwentyFour(t),
          Pad2(NatStr(t \div 60)) \o <<":">> \o Pad2(NatStr(t % 60)),
          Replace(Replace(AmPmFormat(t), <<"a">>, <<" ", "A", "M">>),
                  <<"p">>, <<" ", "P", "M">>)} : t \in DayMinutes}
  \cup {<<>>, <<"a", "b", "c">>, <<"1", ":", "x", "x">>,
        <<"1", "2", "3", "4", "5">>, <<"7">>, <<"9", "3", "0">>}

TInit ==
  /\ NoSessions /\ QueryOff /\ NotClosing /\ PageOff
  /\ tText \in TimeTexts
  /\ tpc = "given"
  /\ parsed = <<0, 0>>

ParseTimes ==
  /\ tpc = "given"
  /\ parsed' = <<parseTime(tText), timeStringToMinutes(tText)>>
  /\ tpc' = "parsed"
  /\ UNCHANGED <<svars, qvars, cvars, shots, pvars, tText>>

\* a time_range bound "HH:MM" as the extractor turns it into minutes: the colon
\* is removed, then the container path calls parseTime and the direct path
\* parseInt on slice(0, 2) and slice(2)
BoundTimes ==
  /\ tpc = "given"
  /\ Len(tText) = 5 /\ tText[3] = ":"
  /\ parsed' = <<StartMinutes(StripColon(tText)), DirectBoundMinutes(StripColon(tText))>>
  /\ tpc' = "bound"
  /\ UNCHANGED <<svars, qvars, cvars, shots, pvars, tText>>

TNext == ParseTimes \/ BoundTimes

SpecTime == TInit /\ [][TNext]_vars

(***************************************************************************)
(* close(): sessions are made by getOrCreateSession() and their holder      *)
(* calls close(), one call on a session after the other. The three fields   *)
(* page, context and browser are kept apart here. A session that has a     *)
(* page writes screenshot files.                                            *)
(***************************************************************************)
\* close() calls made on one session
MaxCloses == 2

rvars == <<hasError, pc, kind, reqSid, made, scraper, newSession, opOn, opKind,
           result, resp, hit, closes, lastHit, issued>>

\* page, context, browser: the order of the three `if (this.x) await this.x.close()`
Parts == <<"page", "context", "browser">>
PartIndex(part) == CHOOSE i \in 1..3 : Parts[i] = part
\* `if (this.page)`, `if (this.context)`, `if (this.browser)`
Held(o) == <<page[o] # "null", context[o] # "null", browser[o] # "null">>
\* the first of the three statements from `from` on whose field is set (0: none)
NextHeld(o, from) ==
  IF \E i \in from..3 : Held(o)[i]
  THEN CHOOSE i \in from..3 : Held(o)[i] /\ \A j \in from..(i - 1) : ~Held(o)[j]
  ELSE 0

\* getOrCreateSession(): `new FandangoScraper(true, 30000)`, then initialize()
\* is awaited
Construct ==
  /\ nobj < MaxObjs
  /\ nobj' = nobj + 1
  /\ sessionId' = [sessionId EXCEPT ![nobj + 1] = NewSessionId]
  /\ cpc' = [cpc EXCEPT ![nobj + 1] = "init"]
  /\ UNCHANGED <<qvars, tvars, rvars, shots, pvars, now, registry, page, context, browser,
                 released, closed>>

\* initialize() settled after it had set `opened` of browser, context, page (an
\* exception in between is caught); the object is registered and returned
Initialized(o, opened) ==
  /\ cpc[o] = "init"
  /\ browser' = [browser EXCEPT ![o] = IF opened >= 1 THEN "open" ELSE "null"]
  /\ context' = [context EXCEPT ![o] = IF opened >= 2 THEN "open" ELSE "null"]
  /\ page' = [page EXCEPT ![o] = IF opened >= 3 THEN "blank" ELSE "null"]
  /\ registry' = Register(registry, o)
  /\ cpc' = [cpc EXCEPT ![o] = "idle"]
  /\ UNCHANGED <<qvars, tvars, rvars, shots, pvars, now, nobj, sessionId, released, closed>>

\* close() from its statement number `from` on: the next field that is set is
\* closed and awaited; when none is left the three fields are set to null and
\* close() returns
CloseFrom(o, from) ==
  LET i == NextHeld(o, from)
  IN IF i # 0
     THEN /\ released' = Append(released, <<o, Parts[i]>>)
          /\ cpc' = [cpc EXCEPT ![o] = Parts[i]]
          /\ UNCHANGED <<page, context, browser, closed>>
     ELSE /\ page' = [page EXCEPT ![o] = "null"]
          /\ context' = [context EXCEPT ![o] = "null"]
          /\ browser' = [browser EXCEPT ![o] = "null"]
          /\ cpc' = [cpc EXCEPT ![o] = "idle"]
          /\ closed' = [closed EXCEPT ![o] = @ + 1]
          /\ UNCHANGED released

\* close() is called: activeScrapers.delete(this.sessionId), then the fields
Close(o) ==
  /\ cpc[o] = "idle"
  /\ closed[o] < MaxCloses
  /\ registry' = Deregister(registry, o)
  /\ CloseFrom(o, 1)
  /\ UNCHANGED <<qvars, tvars, rvars, shots, pvars, now, nobj, sessionId>>

\* the awaited page.close(), context.close() or browser.close() settled
PartClosed(o) ==
  /\ cpc[o] \in {"page", "context", "browser"}
  /\ CloseFrom(o, PartIndex(cpc[o]) + 1)
  /\ UNCHANGED <<qvars, tvars, rvars, shots, pvars, now, registry, nobj, sessionId>>

\* screenshot files written over a run
MaxShots == 2

\* takeScreenshot(name) on a session that has a page: the file is
\* `${name}_${timestamp}.png` in the screenshot directory all sessions share,
\* timestamp = new Date().toISOString() cut after the seconds
TakeScreenshot(o, name) ==
  /\ cpc[o] = "idle" /\ page[o] # "null"
  /\ Len(shots) < MaxShots
  /\ shots' = Append(shots, [obj |-> o, path |-> <<name, now \div 1000>>])
  /\ UNCHANGED <<svars, qvars, tvars, cvars, pvars>>

CNext ==
  \/ Tick
  \/ Construct
  \/ \E o \in Objs, opened \in 0..3 : Initialized(o, opened)
  \/ \E o \in Objs : Close(o)
  \/ \E o \in Objs : PartClosed(o)
  \/ \E o \in Objs, name \in {"debug_full_page", "movie"} : TakeScreenshot(o, name)

SpecClose == Init /\ [][CNext]_vars

(***************************************************************************)
(* The page operations, one call each: performSearch, continueToSeatMap    *)
(* and navigateToTimeSlotSafely, on pages drawn from bounded sets          *)
(***************************************************************************)
\* What the selectors of performSearch meet:
\*   box     one of the six search input selectors matches
\*   enter   searchBox.press("Enter") returns or throws
\*   button  the search button selectors: none matches, or the first match is
\*           clicked ("ok") or its click throws
\*   form    the evaluate that submits the first form with an input of type
\*           text: no such form, one is there, or the evaluate throws
SearchDoms ==
  [box : BOOLEAN, enter : {"ok", "throws"}, button : {"none", "ok", "throws"},
   form : {"none", "present", "throws"}]

\* performSearch(searchText): [typed, submitted, ret]
performSearch(dom) ==
  LET failed(typedIn, error) ==
        [typed |-> typedIn, submitted |-> "none", ret |-> [NoRet EXCEPT !.error = error]]
      done(by) ==
        [typed |-> TRUE, submitted |-> by, ret |-> [NoRet EXCEPT !.success = TRUE]]
  IN IF ~dom.box THEN failed(FALSE, "Could not find search box")
     ELSE IF dom.enter = "ok" THEN done("enter")
     ELSE IF dom.button = "ok" THEN done("button")
     ELSE IF dom.button = "throws" THEN failed(TRUE, "Could not submit search")
     ELSE \* buttonClicked is false: the forms are looked through
          IF dom.form = "throws" THEN failed(TRUE, "Could not submit search")
          ELSE done(IF dom.form = "present" THEN "form" ELSE "none")

PerformSearch ==
  /\ pop = "performSearch" /\ ppc = "called"
  /\ typed' = performSearch(searchDom).typed
  /\ submitted' = performSearch(searchDom).submitted
  /\ ret' = performSearch(searchDom).ret
  /\ ppc' = "returned"
  /\ UNCHANGED <<svars, qvars, tvars, cvars, shots, pop, elements, selectedTime,
                 timeSlotUrl, seatMap, searchDom, foundButton, requests>>

\* --- continueToSeatMap: the search for the time button ---
\* An element is [tag, text]; the pages of the model carry a time in the text
\* of an element only (no aria-label, data-* attribute or href holds one, and
\* no element has an id).
Element(tag, text) == [tag |-> tag, text |-> text]

\* index of the first element that passes the test (0 = none): `$$(selector)[0]`
\* and the `for ... of` loops that return at the first hit
FirstWhere(els, Test(_)) ==
  LET hits == {i \in 1..Len(els) : Test(els[i])}
  IN IF hits = {} THEN 0 ELSE CHOOSE i \in hits : \A j \in hits : i <= j

\* tag:has-text("t") and tag:text("t"): the text holds t, letter case ignored
HasText(el, tag, t) == el.tag = tag /\ Includes(ToLower(Trim(el.text)), ToLower(Trim(t)))

\* the selector variations that look at the text, in their order
SelectorMatch(els, time) ==
  LET a == FirstWhere(els, LAMBDA el : HasText(el, "a", time))
      button == FirstWhere(els, LAMBDA el : HasText(el, "button", time))
      span == FirstWhere(els, LAMBDA el : HasText(el, "span", time))
      bare == FirstWhere(els, LAMBDA el : HasText(el, "a", StripColon(time)))
  IN IF a # 0 THEN a ELSE IF button # 0 THEN button ELSE IF span # 0 THEN span ELSE bare

\* text.match(/^\d{1,2}[:.]?\d{0,2}\s*[ap]?m?$/i) !== null
TimeLike(text) ==
  \E d1 \in 1..2, c \in 0..1, d2 \in 0..2, w \in 0..Len(text), ap \in 0..1, m \in 0..1 :
    /\ Len(text) = d1 + c + d2 + w + ap + m
    /\ \A i \in 1..d1 : IsDigit(text[i])
    /\ c = 1 => text[d1 + 1] \in {":", "."}
    /\ \A i \in (d1 + c + 1)..(d1 + c + d2) : IsDigit(text[i])
    /\ \A i \in (d1 + c + d2 + 1)..(d1 + c + d2 + w) : text[i] = " "
    /\ ap = 1 => LowerChar(text[d1 + c + d2 + w + 1]) \in {"a", "p"}
    /\ m = 1 => LowerChar(text[Len(text)]) = "m"

\* .replace(/\s+/g, "").replace(":", "").toLowerCase()
NormalizedTime(text) == ToLower(StripColon(SelectSeq(text, LAMBDA ch : ch # " ")))

\* potentialTimeElements filtered by the normalized texts, then looked up again
\* by `${tag}:has-text("${text}")`
PotentialMatch(els, time) ==
  LET potential(el) == TimeLike(Trim(el.text))
      matches(el) ==
        /\ potential(el)
        /\ \/ Includes(NormalizedTime(Trim(el.text)), NormalizedTime(time))
           \/ Includes(NormalizedTime(time), NormalizedTime(Trim(el.text)))
      first == FirstWhere(els, matches)
  IN IF first = 0 THEN 0
     ELSE FirstWhere(els, LAMBDA el : HasText(el, els[first].tag, Trim(els[first].text)))

\* the evaluateHandle over "a, button, span": the exact text first, then the
\* normalized text or the a / am and p / pm test
ScanMatch(els, time) ==
  LET scanned(el) == el.tag \in {"a", "button", "span"}
      exact == FirstWhere(els, LAMBDA el : scanned(el) /\ Trim(el.text) = Trim(time))
      norm(el) == NormalizedTime(Trim(el.text))
      partial(el) ==
        /\ scanned(el)
        /\ Len(Trim(el.text)) <= 10
        /\ \/ norm(el) = NormalizedTime(Trim(time))
           \/ Includes(norm(el), <<"a">>) /\ Includes(NormalizedTime(Trim(time)), <<"a", "m">>)
           \/ Includes(norm(el), <<"p">>) /\ Includes(NormalizedTime(Trim(time)), <<"p", "m">>)
  IN IF exact # 0 THEN exact ELSE FirstWhere(els, partial)

\* foundButton of continueToSeatMap, as an index into the elements
FoundButton(els, time) ==
  IF SelectorMatch(els, time) # 0 THEN SelectorMatch(els, time)
  ELSE IF PotentialMatch(els, time) # 0 THEN PotentialMatch(els, time)
  ELSE ScanMatch(els, time)

\* The handler of page.route("**/*") for a document request: it adds
\* Referer = https://www.google.com/ to request.headers(), whose names are
\* lower-cased, so the headers the request is continued with hold the referer
\* set by setExtraHTTPHeaders (if any) next to it. The set of Referer values
\* the request can go out with.
RoutedReferer(extra) ==
  {"https://www.google.com/"} \cup (IF extra # "" THEN {extra} ELSE {})

\* page.goto(url) while the extra headers hold the referer `extra`; `sent` is
\* the Referer on the wire
Document(url, extra, sent) ==
  IF sent \in RoutedReferer(extra) THEN <<[url |-> url, referer |-> sent]>> ELSE <<>>

\* checkForSeatMap and the checks before it, by what the page shows after the
\* time slot was gone to or clicked
AfterTimeSlot(after, denied) ==
  CASE after = "seatmap" -> [NoRet EXCEPT !.success = TRUE]
    [] after = "nomap" -> [NoRet EXCEPT !.error = "Could not find seat map container"]
    [] after = "denied" -> [NoRet EXCEPT !.error = denied]

ContinueToSeatMap(after) ==
  /\ pop = "continueToSeatMap" /\ ppc = "called"
  /\ foundButton' = FoundButton(elements, selectedTime)
  /\ IF foundButton' # 0
     THEN \* the button is clicked
          /\ ret' = AfterTimeSlot(after, "Fandango restricts automated access to seat maps")
          /\ UNCHANGED requests
     ELSE \* no button: direct navigation when the URL has mid and tid
          /\ requests' = IF timeSlotUrl.mid /\ timeSlotUrl.tid
                          THEN Document("timeSlotUrl", "", "https://www.google.com/")
                          ELSE <<>>
          /\ ret' = IF timeSlotUrl.mid /\ timeSlotUrl.tid /\ seatMap
                     THEN [NoRet EXCEPT !.success = TRUE]
                     ELSE [NoRet EXCEPT !.hasError = TRUE,
                                        !.error = "Could not find time button matching"]
  /\ ppc' = "returned"
  /\ UNCHANGED <<svars, qvars, tvars, cvars, shots, pop, elements, selectedTime,
                 timeSlotUrl, seatMap, searchDom, typed, submitted>>

\* navigateToTimeSlotSafely(timeSlotUrl) with navigateToTimeSlotAndGetSeatMap:
\* the homepage, the page of the movie (mid) or else of the theater (tid), then
\* the time slot with that page (or the homepage) as options.referer
NavigateToTimeSlotSafely(sent, after) ==
  /\ pop = "navigateToTimeSlotSafely" /\ ppc = "called"
  /\ LET home == "https://www.fandango.com/"
         previsit == IF timeSlotUrl.mid THEN "https://www.fandango.com/mid"
                     ELSE IF timeSlotUrl.tid THEN "https://www.fandango.com/tid"
                     ELSE ""
         referer == IF previsit # "" THEN previsit ELSE home
         visits == Document(home, "", "https://www.google.com/")
                   \o (IF previsit # ""
                       THEN Document(previsit, "", "https://www.google.com/") ELSE <<>>)
     IN /\ sent \in RoutedReferer(referer)
        /\ IF after = "throws"
           THEN \* a goto before the time slot raises
                /\ requests' = visits
                /\ ret' = [NoRet EXCEPT !.error = "Failed in safe navigation to time slot"]
           ELSE /\ requests' = visits \o Document("timeSlotUrl", referer, sent)
                /\ ret' = AfterTimeSlot(IF seatMap /\ after = "seatmap" THEN "seatmap"
                                         ELSE IF after = "denied" THEN "denied" ELSE "nomap",
                                         "Access Denied: Fandango has blocked access to the seat map")
  /\ ppc' = "returned"
  /\ UNCHANGED <<svars, qvars, tvars, cvars, shots, pop, elements, selectedTime,
                 timeSlotUrl, seatMap, searchDom, foundButton, typed, submitted>>

\* the pages and arguments of the model
TimeElements ==
  {Element("a", <<"1", "2", ":", "0", "0", "p">>),
   Element("a", <<"2", ":", "0", "0", "p">>),
   Element("a", <<"2", ":", "3", "0", "p">>),
   Element("a", <<"5", ":", "1", "0", "p">>),
   Element("span", <<"5", ":", "1", "0", "p">>),
   Element("div", <<"9", ":", "1", "5", "p">>),
   Element("a", <<"T", "r", "a", "i", "l", "e", "r">>)}
ElementLists ==
  {<<>>} \cup {<<e>> : e \in TimeElements}
         \cup {<<e, f>> : e \in TimeElements, f \in TimeElements}
SelectedTimes ==
  {<<"2", ":", "0", "0", "p">>,
   <<"5", ":", "1", "0", "p">>,
   <<"5", ":", "1", "0", " ", "P", "M">>,
   <<"1", "2", ":", "3", "0", "p">>,
   <<"9", ":", "1", "5", "p">>}

PInit ==
  /\ NoSessions /\ QueryOff /\ TimeOff /\ NotClosing
  /\ pop \in {"performSearch", "continueToSeatMap", "navigateToTimeSlotSafely"}
  /\ ppc = "called"
  /\ searchDom \in IF pop = "performSearch" THEN SearchDoms ELSE {NoDom}
  /\ elements \in IF pop = "continueToSeatMap" THEN ElementLists ELSE {<<>>}
  /\ selectedTime \in IF pop = "continueToSeatMap" THEN SelectedTimes ELSE {<<>>}
  /\ timeSlotUrl \in IF pop = "performSearch" THEN {NoUrl}
                      ELSE [mid : BOOLEAN, tid : BOOLEAN]
  /\ seatMap \in IF pop = "performSearch" THEN {FALSE} ELSE BOOLEAN
  /\ foundButton = 0 /\ typed = FALSE /\ submitted = "none"
  /\ requests = <<>> /\ ret = NoRet

PNext ==
  \/ PerformSearch
  \/ \E after \in {"seatmap", "nomap", "denied"} : ContinueToSeatMap(after)
  \/ \E sent \in {"https://www.google.com/", "https://www.fandango.com/",
                   "https://www.fandango.com/mid", "https://www.fandango.com/tid"},
        after \in {"seatmap", "nomap", "denied", "throws"} :
          NavigateToTimeSlotSafely(sent, after)

SpecPage == PInit /\ [][PNext]_vars

(***************************************************************************)
(* Claims about the session registry and the routes (checked under Spec)   *)
(***************************************************************************)

\* C2: getOrCreateSession(id) called twice with an id that is in the registry,
\* with no close() in between, returns the same session object both times.
\* (A lookup that finds its id neither constructs an object nor changes the
\* registry: see GetOrCreateSession.)
C2_SameSessionTwice ==
  [][\A r \in Reqs :
       (~hit[r] /\ hit'[r] /\ lastHit[reqSid'[r]].obj # None
          /\ lastHit[reqSid'[r]].closes = closes)
       => scraper'[r] = lastHit[reqSid'[r]].obj]_vars

\* C3: the browser operations of two requests never run on the same session's
\* page at the same time.
C3_PageSerialized ==
  \A r1, r2 \in Reqs : (r1 # r2 /\ opOn[r1] # None) => opOn[r2] # opOn[r1]

\* C4: registering a new session never overwrites the registry entry of another
\* session, and closing a session never removes the entry of a different one.
C4_FreshIdentifier ==
  [][\A i \in Ids :
       registry[i] # None =>
         \/ registry'[i] = registry[i]
         \/ /\ registry'[i] = None
            /\ \E r \in Reqs : pc[r] # "closing" /\ pc'[r] = "closing"
                               /\ scraper[r] = registry[i]]_vars

\* C5: a /seatmap request is served by continueToSeatMap exactly when the session
\* it uses was found in the registry; a request for which a session was created
\* is served by fresh navigation.
C5_ModeMatchesSession ==
  \A r \in Reqs :
    (kind[r] = "seatmap" /\ opKind[r] \in {"continueToSeatMap", "navigateToTimeSlotSafely"})
    => (opKind[r] = "continueToSeatMap" <=> hit[r])

\* C6: once a /search response has handed out a session's id without an
\* exception, that id stays registered to that session object, so a following
\* /seatmap request with the id continues on it.
C6_SessionKeptForSeatMap ==
  \A o \in issued : registry[sessionId[o]] = o

\* C19: when a request finishes and the session it used has hasError set, the
\* request closes the session and the registry no longer holds it, whether the
\* request made the session or continued it.
C19_ErrorSessionClosed ==
  [][\A r \in Reqs :
       (/\ pc[r] \in {"respond", "caught"}
        /\ pc'[r] \in {"closing", "done"}
        /\ hasError'[scraper[r]])
         => pc'[r] = "closing" /\ registry'[sessionId[scraper[r]]] # scraper[r]]_vars

\* C20: a request that awaits its operation in Promise.race gets its response
\* even when the operation never settles: unless the operation settles first,
\* the timer fires and the request ends with the 500 "took too long" response;
\* a request whose race the timer won never ends with another response.
C20_TimeoutResponds ==
  \A r \in Reqs :
    /\ (pc[r] = "race")
         ~> \/ pc[r] = "done" /\ result[r] = "timeout"
               /\ resp[r] = [status |-> 500, body |-> "timeout", sessionId |-> NoId]
            \/ pc[r] \in {"respond", "caught"} /\ result[r] # "timeout"
    /\ [](pc[r] \in {"closing", "done"} /\ result[r] = "timeout"
            => resp[r] = [status |-> 500, body |-> "timeout", sessionId |-> NoId])
C20_TimedOutWhileRunning ==
  \E r \in Reqs :
    /\ pc[r] = "done" /\ result[r] = "timeout"
    /\ opOn[r] # None
    /\ resp[r] = [status |-> 500, body |-> "timeout", sessionId |-> NoId]

\* C21: when the timer wins the race of a request that made its session, the
\* request closes the session and the registry no longer holds it when the
\* request ends.
C21_TimedOutSessionClosed ==
  [][\A r \in Reqs :
       (/\ pc[r] = "caught" /\ result[r] = "timeout"
        /\ made[r] # None /\ scraper[r] = made[r]
        /\ pc'[r] \in {"closing", "done"})
         => pc'[r] = "closing" /\ registry'[sessionId[scraper[r]]] # scraper[r]]_vars

\* C22: a seat-map request whose operation met a 403 or Access-Denied page is
\* answered with a restriction explanation and status 200 (the route's text, or
\* the restriction error of continueToSeatMap), and the session does not have
\* hasError set.
C22_DeniedIsNotAFailure ==
  [][\A r \in Reqs :
       (/\ kind[r] = "seatmap" /\ pc[r] = "respond"
        /\ result[r] \in {"denied", "deniedFlag"}
        /\ pc'[r] \in {"closing", "done"})
         => /\ resp'[r].status = 200
            /\ resp'[r].body \in {"restricted", "denied"}
            /\ ~hasError'[scraper[r]]]_vars

C27_UrlAloneAccepted ==
  [][\A r \in Reqs :
       SeatArrive(r, TRUE, NoId, FALSE)
         => pc'[r] = "init" /\ newSession'[r] /\ resp'[r].status # 400]_vars

\* C34: when initialize() fails inside getOrCreateSession (it settles with
\* false, the page was never made), the new object is not put into the registry
\* and the request does not go on with it as its session.
C34_FailedInitNotRegistered ==
  [][\A r \in Reqs :
       InitDone(r, FALSE)
         => /\ registry' = registry
            /\ pc'[r] \notin {"prenav", "armed"}]_vars

(***************************************************************************)
(* Claims about processQuery and the extractor (SpecQuery)                 *)
(***************************************************************************)
\* C1: a query that has both movie and theater never runs the location-first
\* flow: neither searchCity nor selectNearbyTheater is called, whatever the
\* theater search returns and even when the query has a location.
C1_NoLocationFlow ==
  (query.movie # "" /\ query.theater # "")
    => \A i \in 1..Len(calls) : calls[i] \notin {"searchCity", "selectNearbyTheater"}

\* C7: when the query has neither time_range nor specific_times, every slot of
\* the returned result is highlighted exactly when it has a url.
C7_AvailableHighlighted ==
  (qpc = "returned" /\ ~query.time_range.has /\ ~query.specific_times.given)
    => \A i \in 1..Len(results.timeSlots) :
         results.timeSlots[i].isHighlighted <=> results.timeSlots[i].url # "undefined"

\* C8: with a time_range that has start and end (and no specific times), a
\* returned slot is highlighted exactly when start <= slot <= end, in minutes
\* of the day (a bound "HH:MM" standing for 60 * HH + MM).
C8_RangeHighlight ==
  (/\ qpc = "returned"
   /\ query.time_range.start # <<>> /\ query.time_range.end # <<>>
   /\ query.specific_times.list = <<>>)
    => LET start == query.time_range.start
           end == query.time_range.end
       IN \A i \in 1..Len(results.timeSlots) :
            results.timeSlots[i].isHighlighted
              <=> InRange(parseTime(results.timeSlots[i].time),
                          60 * NumVal(SubSeq(start, 1, 2)) + NumVal(SubSeq(start, 4, 5)),
                          60 * NumVal(SubSeq(end, 1, 2)) + NumVal(SubSeq(end, 4, 5)))

\* C10: a returned slot is highlighted whenever its text and one of the
\* specific times stand for the same minute of the day, whatever their formats.
C10_SameMinuteMatches ==
  qpc = "returned"
    => \A i \in 1..Len(results.timeSlots) :
         \A j \in 1..Len(query.specific_times.list) :
           StrictEq(parseTime(results.timeSlots[i].time),
                    parseTime(query.specific_times.list[j]))
             => results.timeSlots[i].isHighlighted

\* C11: the time filter never removes slots. When the movie + theater branch
\* extracted without a failure, the result has one slot for every button with a
\* time text, whatever the filter; for the range 17:00-22:00 on a page showing
\* 13:20, 17:45, 20:10 and 23:00 all four are returned and only 17:45 and
\* 20:10 are highlighted.
C11_FilterKeepsSlots ==
  (/\ qpc = "returned"
   /\ calls = <<"navigateToFandango", "searchTheater", "findMovieOnTheaterPage">>
   /\ extractPath # "none" /\ qpage.raises = "none"
   /\ extractPath = "container" => qpage.containerPresent)
    => LET buttons == qpage.buttons
           slots == results.timeSlots
           timed == {i \in 1..Len(buttons) :
                       Trim(buttons[i].text) # <<>> /\ Len(Trim(buttons[i].text)) <= 10}
       IN /\ Len(slots) = Cardinality(timed)
          /\ \A i \in timed : \E j \in 1..Len(slots) :
                slots[j].time = Trim(buttons[i].text)
                /\ slots[j].url = IF buttons[i].href # "" THEN buttons[i].href
                                  ELSE "undefined"
          /\ (/\ query.time_range = TimeRange(S1700, S2200)
              /\ query.specific_times.list = <<>>
              /\ buttons \in {DayListing, DayListing24})
               => /\ Len(slots) = 4
                  /\ [i \in 1..4 |-> slots[i].time] = [i \in 1..4 |-> buttons[i].text]
                  /\ [i \in 1..4 |-> slots[i].isHighlighted] = <<FALSE, TRUE, TRUE, FALSE>>

\* the 13:20 / 17:45 / 20:10 / 23:00 page was extracted under 17:00-22:00
\* through its container
C11_DayListingFiltered ==
  /\ qpc = "returned"
  /\ calls = <<"navigateToFandango", "searchTheater", "findMovieOnTheaterPage">>
  /\ extractPath = "container"
  /\ query.time_range = TimeRange(S1700, S2200)
  /\ query.specific_times.list = <<>>
  /\ qpage.buttons = DayListing24
  /\ Len(results.timeSlots) = 4
  /\ results.timeSlots[2].isHighlighted /\ ~results.timeSlots[1].isHighlighted

\* C12: in a result of findMovieOnTheaterPage a slot is highlighted only if it
\* lies in the supplied range (start <= slot <= end, a bound "HH:MM" standing
\* for 60 * HH + MM) or stands for the same minute as a supplied specific time
\* (a specific time "HH:MM" read on the 12-hour or on the 24-hour clock),
\* or, when neither was supplied, has a url.
C12_HighlightOnlyIfMatches ==
  LET start == query.time_range.start
      end == query.time_range.end
      times == query.specific_times.list
  IN \A i \in 1..Len(movieResult.timeSlots) :
       LET slot == movieResult.timeSlots[i]
       IN slot.isHighlighted
            => IF query.time_range.has \/ times # <<>>
               THEN \/ /\ start # <<>> /\ end # <<>>
                       /\ InRange(parseTime(slot.time),
                                  60 * NumVal(SubSeq(start, 1, 2)) + NumVal(SubSeq(start, 4, 5)),
                                  60 * NumVal(SubSeq(end, 1, 2)) + NumVal(SubSeq(end, 4, 5)))
                    \/ \E j \in 1..Len(times) :
                         \/ StrictEq(parseTime(slot.time), parseTime(times[j]))
                         \/ /\ Len(times[j]) = 5 /\ times[j][3] = ":"
                            /\ parseTime(slot.time)
                                 = 60 * NumVal(SubSeq(times[j], 1, 2)) + NumVal(SubSeq(times[j], 4, 5))
               ELSE slot.url # "undefined"

\* C13: when the theater was resolved and findMovieOnTheaterPage then does not
\* succeed (it returns an error or raises), the result of processQuery has an
\* error and at least one screenshot.
C13_FailedMovieHasScreenshot ==
  [][(/\ qpc \in {"extract_first", "extract_nearby", "extract_fallback", "extract_only"}
      /\ qpc' = "returned"
      /\ ~movieResult'.success)
       => results'.error # "" /\ results'.screenshots # <<>>]_vars

C15_NoParametersNoNavigation ==
  (/\ qpc = "returned"
   /\ query.movie = "" /\ query.location = "" /\ query.theater = "")
    => results.error = "No valid search parameters provided" /\ calls = <<>>

\* C16: for a query with location and movie and no theater, once searchCity
\* succeeded processQuery calls findMovieOnTheaterPage for the movie before it
\* returns.
C16_CityThenExtraction ==
  (/\ qpc = "returned"
   /\ query.location # "" /\ query.movie # "" /\ query.theater = ""
   /\ results.error = "")
    => \E i \in 1..Len(calls) : calls[i] = "findMovieOnTheaterPage"

\* C17: every result processQuery returns, whichever branch returns it, has
\* the sessionId of the session processQuery was called on.
C17_ResultCarriesSessionId ==
  qpc = "returned" => results.sessionId = qsid
C17_CaughtResultCarriesId ==
  /\ qpc = "returned"
  /\ results.error = "Error processing query"
  /\ calls = <<"navigateToFandango", "searchTheater", "findMovieOnTheaterPage">>
  /\ qsid \in Ids /\ results.sessionId = qsid

\* C25: within one processQuery call the screenshots of the result only grow,
\* and when the extractor succeeded the result holds the full-page capture the
\* extractor takes first ("debug_full_page") and every screenshot the extractor
\* returned.
C25_ScreenshotsKept ==
  [][/\ Len(results'.screenshots) >= Len(results.screenshots)
     /\ SubSeq(results'.screenshots, 1, Len(results.screenshots)) = results.screenshots
     /\ (qpc' = "returned" /\ movieResult' # movieResult /\ movieResult'.success)
          => /\ \E i \in 1..Len(results'.screenshots) :
                  results'.screenshots[i] = "debug_full_page"
             /\ \A j \in 1..Len(movieResult'.screenshots) :
                  \E i \in 1..Len(results'.screenshots) :
                    results'.screenshots[i] = movieResult'.screenshots[j]]_vars

\* C29: when the extractor ran in a processQuery call and harvested a slot, the
\* result has the extractor's timeSlots, movieTitle and theaterName, whichever
\* branch called the extractor.
C29_SlotsInResult ==
  (qpc = "returned" /\ movieResult.timeSlots # <<>>)
    => /\ results.timeSlots = movieResult.timeSlots
       /\ results.movieTitle = movieResult.movieTitle
       /\ results.theaterName = movieResult.theaterName

\* C30: in one processQuery call findMovieOnTheaterPage is called at most once
\* and only right after a searchTheater or selectNearbyTheater that returned no
\* error; when selectNearbyTheater returns an error searchTheater is called
\* once as fallback, and when that returns an error too processQuery returns
\* with this error and without having called the extractor.
C30_ExtractorAfterTheater ==
  [][/\ Cardinality({i \in 1..Len(calls') : calls'[i] = "findMovieOnTheaterPage"}) <= 1
     /\ (calls' # calls /\ calls'[Len(calls')] = "findMovieOnTheaterPage")
          => \/ TheaterFirst("ok") \/ NearbySelected("ok")
             \/ TheaterFallback("ok") \/ TheaterOnly("ok")
     /\ \A err \in NearbyOutcomes \ {"ok", "throw"} :
          NearbySelected(err)
            => qpc' = "searchTheater_fallback" /\ calls' = Append(calls, "searchTheater")
     /\ \A out \in TheaterOutcomes :
          TheaterFallback(out) => qpc' \in {"extract_fallback", "returned"}
     /\ \A err \in TheaterOutcomes \ {"ok", "throw"} :
          TheaterFallback(err)
            => /\ qpc' = "returned" /\ results'.error = err
               /\ \A i \in 1..Len(calls') : calls'[i] # "findMovieOnTheaterPage"]_vars
C30_FallbackFailed ==
  /\ qpc = "returned"
  /\ Len(calls) >= 2
  /\ SubSeq(calls, Len(calls) - 1, Len(calls)) = <<"selectNearbyTheater", "searchTheater">>
  /\ results.error = "Theater link not found"
  /\ query.movie # ""

\* C32: when no selector matched and a title element of the page contains the
\* movie title (partial match), the extractor goes on with it: its result has
\* that element's text as movieTitle and is not the error "Movie not found on
\* theater page".
C32_PartialMatchProceeds ==
  (/\ qpc = "returned"
   /\ qpage.section /\ qpage.raises = "none"
   /\ qpage.match \in {"partialId", "partialNoId"})
    => /\ movieResult.movieTitle = qpage.title
       /\ movieResult.error # "Movie not found on theater page"

\* C35: under a time filter (a range or specific times) the isHighlighted of a
\* slot does not depend on the extraction path: what the path taken computed
\* for a slot is what the other path computes for the same slot text and filter.
C35_SameOnBothPaths ==
  (/\ qpc = "returned"
   /\ query.time_range.has \/ query.specific_times.given)
    => \A i \in 1..Len(movieResult.timeSlots) :
         LET slot == movieResult.timeSlots[i]
         IN /\ extractPath = "direct"
                 => slot.isHighlighted
                      = ContainerHighlight(slot.time, query.time_range, query.specific_times)
            /\ extractPath = "container"
                 => slot.isHighlighted
                      = DirectHighlight(slot, query.time_range, query.specific_times)

\* C36: a range with one bound only has the day's edge as its other bound:
\* with a start alone every slot at or after the start is highlighted, with an
\* end alone every slot at or before the end.
C36_MissingBoundIsDayEdge ==
  (/\ qpc = "returned"
   /\ query.time_range.has
   /\ (query.time_range.start = <<>>) # (query.time_range.end = <<>>))
    => \A i \in 1..Len(movieResult.timeSlots) :
         LET slot == movieResult.timeSlots[i]
             start == query.time_range.start
             end == query.time_range.end
             lo == IF start = <<>> THEN 0
                   ELSE 60 * NumVal(SubSeq(start, 1, 2)) + NumVal(SubSeq(start, 4, 5))
             hi == IF end = <<>> THEN 23 * 60 + 59
                   ELSE 60 * NumVal(SubSeq(end, 1, 2)) + NumVal(SubSeq(end, 4, 5))
         IN InRange(parseTime(slot.time), lo, hi) => slot.isHighlighted

\* C38: every slot in a result of findMovieOnTheaterPage has a time text that
\* is not empty and has at most 10 characters, and its url is absent or a
\* string that is not empty.
C38_SlotsWellFormed ==
  \A i \in 1..Len(movieResult.timeSlots) :
    LET slot == movieResult.timeSlots[i]
    IN /\ slot.time # <<>> /\ Len(slot.time) <= 10
       /\ slot.url = "undefined" \/ slot.url # ""

\* a page with an empty element, a 15-character element and a button without
\* a link was harvested: the result has fewer slots than the page has elements
C38_ElementsSkipped ==
  /\ qpc = "returned"
  /\ movieResult.success
  /\ \E i \in 1..Len(qpage.buttons) : Trim(qpage.buttons[i].text) = <<>>
  /\ \E i \in 1..Len(qpage.buttons) : Len(Trim(qpage.buttons[i].text)) > 10
  /\ \E i \in 1..Len(movieResult.timeSlots) : movieResult.timeSlots[i].url = "undefined"

(***************************************************************************)
(* Claims about the page operations (checked under SpecPage)               *)
(***************************************************************************)
\* C31: an element continueToSeatMap clicks shows the same showtime as
\* selectedTime (the same text once white space, letter case and the "m" of
\* am / pm are left out); when the page has no such element nothing is clicked
\* and the call returns the error "Could not find time button matching" with
\* hasError set.
C31_ClickedIsSelected ==
  LET same(text, time) ==
        Replace(NormalizedTime(Trim(text)), <<"m">>, <<>>)
          = Replace(NormalizedTime(Trim(time)), <<"m">>, <<>>)
  IN (pop = "continueToSeatMap" /\ ppc = "returned")
       => IF \E i \in 1..Len(elements) : same(elements[i].text, selectedTime)
          THEN foundButton # 0 /\ same(elements[foundButton].text, selectedTime)
          ELSE /\ foundButton = 0
               /\ ret.error = "Could not find time button matching"
               /\ ret.hasError

\* C33: performSearch returns success only after the text was submitted (by
\* Enter, a search button or a form); without a search input it returns "Could
\* not find search box" and types nothing; when Enter fails, no button matches
\* and no form with a text input exists it returns an error.
C33_SuccessMeansSubmitted ==
  (pop = "performSearch" /\ ppc = "returned")
    => /\ ret.success => typed /\ submitted \in {"enter", "button", "form"}
       /\ ~searchDom.box => ret.error = "Could not find search box" /\ ~typed
       /\ (/\ searchDom.box /\ searchDom.enter = "throws"
           /\ searchDom.button = "none" /\ searchDom.form = "none")
            => ret.error # ""

\* C37: in fresh seat-map navigation the document request for the time-slot
\* URL has as Referer the page visited just before it: the movie page when the
\* URL has mid, else the theater page when it has tid, else the homepage.
C37_RefererIsPrevisit ==
  (pop = "navigateToTimeSlotSafely" /\ ppc = "returned")
    => \A i \in 1..Len(requests) :
         requests[i].url = "timeSlotUrl"
           => /\ i > 1
              /\ requests[i].referer = requests[i - 1].url
              /\ requests[i].referer
                   = IF timeSlotUrl.mid THEN "https://www.fandango.com/mid"
                     ELSE IF timeSlotUrl.tid THEN "https://www.fandango.com/tid"
                     ELSE "https://www.fandango.com/"

(***************************************************************************)
(* Claims about close() (checked under SpecClose)                          *)
(***************************************************************************)

\* C18: the first close() of a session leaves no registry entry under the
\* session's id and closes page, context and browser in this order; a later
\* close() of the same session closes nothing and leaves the registry as it is.
C18_CloseTwice ==
  [][\A o \in Objs :
       /\ Close(o) /\ closed[o] = 0 => registry'[sessionId[o]] = None
       /\ Close(o) /\ closed[o] > 0
            => released' = released /\ registry' = registry /\ cpc'[o] = "idle"
       /\ (Close(o) \/ PartClosed(o)) /\ released' # released
            => \A k \in 1..Len(released) :
                 released[k][1] = o
                   => PartIndex(released[k][2])
                        < PartIndex(released'[Len(released')][2])]_vars

\* C28: no two screenshots, of one session or of two, are written to the same
\* file path.
C28_DistinctPaths ==
  \A i, j \in 1..Len(shots) : i # j => shots[i].path # shots[j].path

(***************************************************************************)
(* Claims about the time parsers (SpecTime)                                *)
(***************************************************************************)
\* C24: parseTime and timeStringToMinutes give 0 for "", "abc", "1:xx" and
\* "12345", and for no text a value that is not a number (NaN) or is negative.
C24_MalformedIsZero ==
  tpc = "parsed" =>
    /\ tText \in {<<>>, <<"a", "b", "c">>, <<"1", ":", "x", "x">>, <<"1", "2", "3", "4", "5">>}
         => parsed = <<0, 0>>
    /\ parsed[1] # NaN /\ parsed[1] >= 0
    /\ parsed[2] # NaN /\ parsed[2] >= 0

C23_BoundMinutes ==
  tpc = "bound"
    => LET minutes == 60 * NumVal(SubSeq(tText, 1, 2)) + NumVal(SubSeq(tText, 4, 5))
       IN parsed = <<minutes, minutes>>

====
